---- MODULE Spec2Model ----
(***************************************************************************)
(* mcp-bash-go: the persistent bash session (pkg/bash/bash.go), the       *)
(* tool-call handlers that drive it (cmd/server/main.go), and the message  *)
(* layer in front of them (pkg/mcp/server.go, pkg/mcp/transport.go).       *)
(*                                                                         *)
(* Text is modelled as a sequence of chunks.  A chunk stands for a run of  *)
(* bytes: k is what the bytes are, id tells two runs of the same kind      *)
(* apart, n is the number of bytes.  Lengths are the real byte counts, so  *)
(* the caps of bash.go keep their real values.                             *)
(***************************************************************************)
EXTENDS Integers, Sequences, FiniteSets, TLC

\* ---------------------------------------------------------------- bounds
MaxCalls == 2
MaxProcs == 2
TimeoutTicks == 1
MaxLines == 2
MaxFrames == 2

Tasks == {1, 2}

\* ------------------------------------------------------ program constants
MaxScannerBufferSize == 1024 * 1024
MaxOutputSize == 512 * 1024

\* ------------------------------------------------------------------ text
Chunk(k, id, n) == [k |-> k, id |-> id, n |-> n]
NL == Chunk("nl", 0, 1)
CR == Chunk("cr", 0, 1)

RECURSIVE Bytes(_)
Bytes(s) ==
    IF s = <<>> THEN 0 ELSE Head(s).n + Bytes(Tail(s))

\* fmt.Sprintf("__BASH_CMD_DONE_%d__", time.Now().UnixNano()): one token per
\* call; m is the call's number, standing for the clock reading.
Marker(m) == Chunk("marker", m, 37)

\* What bash prints for $? .
StatusText(code) == Chunk("status", code, IF code < 10 THEN 1 ELSE 3)

\* fmt.Sprintf("\n[Exit code: %s]", exitCode): exitCode is the rest of the
\* marker line, whatever it holds.
ExitNote(rest) ==
    << NL, Chunk("exit", IF Len(rest) = 1 THEN rest[1].id ELSE -1, 13 + Bytes(rest)) >>

\* fmt.Sprintf("\n... [output truncated at %d bytes] ...\n", MaxOutputSize)
NoticeBody == Chunk("notice", 0, 42)
TruncationNotice == << NL, NoticeBody, NL >>

\* "\n\nSTDERR:\n"
StderrHeader == << NL, NL, Chunk("hdr", 0, 7), NL >>

\* strings.TrimRight(output, "\n")
RECURSIVE TrimRightNL(_)
TrimRightNL(s) ==
    IF s # <<>> /\ s[Len(s)] = NL THEN TrimRightNL(SubSeq(s, 1, Len(s) - 1)) ELSE s

\* strings.HasPrefix(line, marker) and strings.TrimPrefix(line, marker)
HasPrefix(line, m) == line # <<>> /\ line[1] = Marker(m)
TrimPrefix(line, m) == IF HasPrefix(line, m) THEN Tail(line) ELSE line

\* ----------------------------------------------------- bufio.ScanLines
\* Index of the first newline of s, 0 when it has none.
RECURSIVE FirstNL(_, _)
FirstNL(s, i) ==
    IF i > Len(s) THEN 0 ELSE IF s[i] = NL THEN i ELSE FirstNL(s, i + 1)

\* The bytes of the next token, its terminator excluded.
RawLine(s) ==
    IF FirstNL(s, 1) = 0 THEN s ELSE SubSeq(s, 1, FirstNL(s, 1) - 1)

\* What is left in the stream after the next token.
AfterLine(s) ==
    IF FirstNL(s, 1) = 0 THEN <<>> ELSE SubSeq(s, FirstNL(s, 1) + 1, Len(s))

\* dropCR: one trailing carriage return is not part of the line.
DropCR(line) ==
    IF line # <<>> /\ line[Len(line)] = CR THEN SubSeq(line, 1, Len(line) - 1) ELSE line

\* The scanner gives up (bufio.ErrTooLong) when its buffer, grown to
\* MaxScannerBufferSize, holds no complete line.
TokenTooLong(s) ==
    Bytes(RawLine(s)) >= MaxScannerBufferSize

\* -------------------------------------------------------------- commands
\* A command line given to the bash tool, by what bash does with it:
\*   kind    "run" prints lines and ends with a status; "cd" changes the
\*           working directory; "pwd" prints it; "exit" is the builtin that
\*           ends the shell; "hang" never finishes; "bomb" leaves a
\*           background job behind that kills the shell later; "warn"
\*           prints lines to stderr only
\*   lines   the lengths of the lines a "run" prints to stdout (a "warn"
\*           to stderr)
\*   crlf    whether those lines end in "\r\n"
\*   noEol   whether the last line is left without its newline (printf)
\*   status  the exit status
\*   err     the length of the line it prints to stderr, 0 for none
\*   bigTail whether the text after the first line (further lines the shell
\*           reads only after the first has finished) exceeds what the
\*           stdin pipe can buffer
Cmd(kind, lines, crlf, noEol, status, err, bigTail) ==
    [kind |-> kind, lines |-> lines, crlf |-> crlf, noEol |-> noEol,
     status |-> status, err |-> err, bigTail |-> bigTail]

NoCmd == Cmd("none", <<>>, FALSE, FALSE, 0, 0, FALSE)

\* The working directories of the model: where bash starts, and /tmp.
Dirs == { "home", "tmp" }
DirId(d) == IF d = "tmp" THEN 1 ELSE 0

RECURSIVE LinesText(_, _, _)
LinesText(c, no, i) ==
    IF i > Len(c.lines) THEN <<>>
    ELSE (IF c.lines[i] > 0 THEN << Chunk("data", 10 * no + i, c.lines[i]) >> ELSE <<>>)
         \o (IF c.crlf THEN << CR >> ELSE <<>>)
         \o (IF i = Len(c.lines) /\ c.noEol THEN <<>> ELSE << NL >>)
         \o LinesText(c, no, i + 1)

\* What the command of call number no writes to stdout in directory cwd.
CmdStdout(c, no, cwd) ==
    CASE c.kind = "run" -> LinesText(c, no, 1)
      [] c.kind = "pwd" -> << Chunk("path", DirId(cwd), IF cwd = "tmp" THEN 4 ELSE 5), NL >>
      [] OTHER -> <<>>

\* The lines a "warn" writes to stderr.
RECURSIVE ErrLines(_, _, _)
ErrLines(c, no, i) ==
    IF i > Len(c.lines) THEN <<>>
    ELSE << Chunk("err", 10 * no + i, c.lines[i]), NL >> \o ErrLines(c, no, i + 1)

\* What it writes to stderr.
CmdStderr(c, no) ==
    IF c.kind = "warn" THEN ErrLines(c, no, 1)
    ELSE IF c.err > 0 THEN << Chunk("err", no, c.err), NL >> ELSE <<>>

\* The commands of the concurrent specification.
Commands ==
    { Cmd("cd", <<>>, FALSE, FALSE, 0, 0, FALSE),
      Cmd("pwd", <<>>, FALSE, FALSE, 0, 0, FALSE),
      Cmd("run", <<>>, FALSE, FALSE, 7, 5, FALSE),
      Cmd("exit", <<>>, FALSE, FALSE, 7, 0, FALSE),
      Cmd("exit", <<>>, FALSE, FALSE, 7, 0, TRUE),
      Cmd("hang", <<>>, FALSE, FALSE, 0, 0, FALSE),
      Cmd("bomb", <<>>, FALSE, FALSE, 0, 0, FALSE) }

\* The commands of the output specification: every shape of output.
LineLens ==
    { 0, 1, MaxOutputSize - 2, MaxOutputSize - 1, MaxOutputSize, MaxScannerBufferSize }

RECURSIVE SeqsUpTo(_, _)
SeqsUpTo(S, n) ==
    IF n = 0 THEN { <<>> }
    ELSE SeqsUpTo(S, n - 1)
         \cup { Append(q, x) : q \in { r \in SeqsUpTo(S, n - 1) : Len(r) = n - 1 }, x \in S }

\* The commands of the diagnostics specification: every shape of stderr
\* output, and the exit builtin.
ErrLens == { 1, MaxOutputSize - 1, MaxOutputSize, MaxScannerBufferSize }

DiagCommands ==
    { Cmd("warn", ls, FALSE, FALSE, 0, 0, FALSE) : ls \in SeqsUpTo(ErrLens, MaxLines) }
    \cup { Cmd("exit", <<>>, FALSE, FALSE, 7, 0, FALSE) }

\* The commands of the sequential specification: no output, one short
\* line, or lines as long as the cap (one more of them than MaxLines),
\* without or with a line on stderr.
SeqLines == SeqsUpTo({ MaxOutputSize }, MaxLines + 1) \cup { << 1 >> }

SeqCommands ==
    { Cmd("run", ls, FALSE, FALSE, 0, err, FALSE) : ls \in SeqLines, err \in { 0, 5 } }

OutputCommands ==
    { Cmd("run", ls, crlf, noEol, st, err, FALSE) :
        ls \in SeqsUpTo(LineLens, MaxLines), crlf \in BOOLEAN, noEol \in BOOLEAN,
        st \in { 0, 7 }, err \in { 0, 5 } }
    \cup { Cmd("exit", <<>>, FALSE, FALSE, 7, 0, bigTail) : bigTail \in BOOLEAN }
    \cup { Cmd("hang", <<>>, FALSE, FALSE, 0, 0, bigTail) : bigTail \in BOOLEAN }
    \cup { Cmd("cd", <<>>, FALSE, FALSE, 0, 0, TRUE) }

\* -------------------------------------------------------------- messages
\* A method name, by its segments: "tools/call" is << "tools", "call" >>.
\* strings.HasPrefix(request.Method, "notifications/")
IsNotificationMethod(m) == Len(m) > 1 /\ m[1] = "notifications"

\* The request handlers main registers (list_tools and call_tool are
\* aliases that call these two).
Handlers == { << "tools", "list" >>, << "tools", "call" >> }

\* The error codes of handleRequest and handleInitialize.
CodeNotInitialized == -32002
CodeMethodNotFound == -32601
CodeHandlerError == -32000
CodeInvalidParams == -32602

\* A line read from stdin:
\*   parses  whether json.Unmarshal into a RequestMessage succeeds
\*   hasId   whether it carries an "id" (a Request) or not (a Notification)
\*   method  its method name
\*   params  what its params hold: for initialize "ok" (InitializeParams
\*           with a protocolVersion), "nover" (InitializeParams without
\*           one, or null) or "bad" (absent, or not an object); for
\*           tools/call "bad" (no CallToolRequest),
\*           "unknown" (another tool name), "badargs" (arguments that do
\*           not parse), "nocommand" (no command given, or an empty
\*           one), "restartonly" (restart: true and no command), "run" or
\*           "restart" (a command, without or with restart: true)
Msg(parses, hasId, method, params) ==
    [parses |-> parses, hasId |-> hasId, method |-> method, params |-> params]

Methods ==
    { << "initialize" >>, << "initialized" >>, << "ping" >>, << "nosuch" >>,
      << "notifications", "initialized" >>, << "notifications", "cancelled" >>,
      << "tools", "list" >>, << "tools", "call" >> }

ParamsOf(m) ==
    CASE m = << "initialize" >> -> { "ok", "nover", "bad" }
      [] m = << "tools", "call" >> -> { "bad", "unknown", "badargs", "nocommand", "run", "restart" }
      [] OTHER -> { "ok" }

Msgs ==
    { Msg(TRUE, hasId, m, p) : hasId \in BOOLEAN, m \in Methods, p \in { "ok", "nover", "bad", "unknown", "badargs", "nocommand", "run", "restart" } }

\* A tool call that gets as far as the bash manager.
RunsBash(x) == x.method = << "tools", "call" >> /\ x.params \in { "run", "restart" }

\* The messages of the router specification: every kind of line, but for
\* the tool calls that run a command.
RouterMsgs ==
    { x \in Msgs : x.params \in ParamsOf(x.method) /\ ~RunsBash(x) }
    \cup { Msg(FALSE, FALSE, << "nosuch" >>, "bad") }

\* The messages of the tool-call specification: the notification that
\* makes the server ready, tools/list, and every kind of tools/call.
ToolMsgs ==
    { Msg(TRUE, FALSE, << "notifications", "initialized" >>, "ok"),
      Msg(TRUE, TRUE, << "tools", "list" >>, "ok") }
    \cup { Msg(TRUE, TRUE, << "tools", "call" >>, p) : p \in ParamsOf(<< "tools", "call" >>) }

\* The messages of the method-table specification: the notification that
\* makes the server ready, and requests for methods with and without a
\* handler, whose handler succeeds or fails.
TableMsgs ==
    { Msg(TRUE, FALSE, << "notifications", "initialized" >>, "ok"),
      Msg(TRUE, TRUE, << "nosuch" >>, "ok"),
      Msg(TRUE, TRUE, << "ping" >>, "ok"),
      Msg(TRUE, TRUE, << "tools", "list" >>, "ok"),
      Msg(TRUE, TRUE, << "tools", "call" >>, "bad"),
      Msg(TRUE, TRUE, << "tools", "call" >>, "unknown") }

\* The messages of the notification specification: the server is made
\* ready, a tool call runs a command, and notifications arrive.
NotifyMsgs ==
    { Msg(TRUE, FALSE, << "notifications", "initialized" >>, "ok"),
      Msg(TRUE, FALSE, << "notifications", "cancelled" >>, "ok"),
      Msg(TRUE, TRUE, << "tools", "call" >>, "run") }

\* The messages of the argument specification: the server is made ready,
\* a tool call runs a command, and tool calls arrive whose arguments
\* ParseBashArgs refuses.
ArgMsgs ==
    { Msg(TRUE, FALSE, << "notifications", "initialized" >>, "ok"),
      Msg(TRUE, TRUE, << "tools", "call" >>, "run"),
      Msg(TRUE, TRUE, << "tools", "call" >>, "badargs"),
      Msg(TRUE, TRUE, << "tools", "call" >>, "nocommand"),
      Msg(TRUE, TRUE, << "tools", "call" >>, "restartonly") }

\* A response: a JSON-RPC error object or a result.  The id is the
\* request's (0 stands for the null of a message without one).  The result
\* of a tool call is its text content: whether it is an error text
\* ("Error: " + message, isError set) and what it says.
\* An initialize result also carries a protocol version and capabilities.
NoResp ==
    [k |-> "none", id |-> 0, code |-> 0, error |-> FALSE, body |-> "none",
     version |-> "none", capabilities |-> {}]
ErrorResp(id, code) == [NoResp EXCEPT !.k = "error", !.id = id, !.code = code]
ResultResp(id, body) == [NoResp EXCEPT !.k = "result", !.id = id, !.body = body]

\* createErrorResponse(message)
createErrorResponse(id, message) ==
    [NoResp EXCEPT !.k = "result", !.id = id, !.error = TRUE, !.body = message]

\* The protocolVersion json.Unmarshal leaves in InitializeParams: the
\* client's, or the empty string when the params name none.
ClientVersion == "2024-11-05"
ProtocolVersionOf(params) == IF params = "ok" THEN ClientVersion ELSE ""

\* Mutant: the server answers with its own protocol version.
AcceptedVersionOwn(v) == "2023-11-05"

\* handleInitialize: protocolVersion := params.ProtocolVersion, or
\* "2023-11-05" when that is empty.
AcceptedVersion(v) == IF v = "" THEN "2023-11-05" ELSE v

\* The capabilities handleInitialize marshals: tools.list and tools.call.
ServerCapabilities == { << "tools", "list" >>, << "tools", "call" >> }

\* The InitializeResult, wrapped as the result of the response.
InitializeResult(id, params) ==
    [ResultResp(id, "initialize") EXCEPT
        !.version = AcceptedVersion(ProtocolVersionOf(params)),
        !.capabilities = ServerCapabilities]

\* The goroutine of one message, and what it has worked out so far.
Slots == 1..(MaxFrames + 1)

NoFrame ==
    [st |-> "none",             \* "none", "handle", "tool", "reply", "locked",
                                \* "head", "tail", "done"
     msg |-> Msg(FALSE, FALSE, <<>>, "none"),
     uninit |-> FALSE,          \* s.initialized was false when it was routed
     t |-> 0,                   \* the task running its tool call
     nh |-> FALSE,              \* go nh(request.Params) was started for it
     resp |-> NoResp]           \* what handler(data) returned

\* ----------------------------------------------------------------- state
VARIABLES
    pc,        \* [Tasks -> where the task's tool call stands]
    call,      \* [Tasks -> the task's current (or last) tool call]
    calls,     \* number of tool calls dispatched so far
    mgrLock,   \* BashManager.sessionMutex: 0, or the task holding it
    session,   \* BashManager.session: 0 for nil, or an index of sess
    sess,      \* every BashSession created so far, with its bash process
    prev,      \* the last manager operation that completed
    down,      \* BashManager.Close() stage of the shutdown goroutine
    initialized, \* Server.initialized
    frames,    \* [Slots -> the message read from stdin and its goroutine]
    tmutex,    \* StdioTransport.mutex: 0, or the slot whose goroutine holds it
    wbuf,      \* what t.writer (the bufio.Writer on stdout) holds unflushed
    stream,    \* what has been written to stdout
    transport  \* StdioTransport: running, stopChan, waitGroup, and Stop()

\* The variables of the message layer.
rpc == << initialized, frames, tmutex, wbuf, stream, transport >>

vars == << pc, call, calls, mgrLock, session, sess, prev, down, rpc >>

NoRes == [k |-> "none", e |-> "none", text |-> <<>>]
Ok(text) == [k |-> "ok", e |-> "none", text |-> text]
Err(e) == [k |-> "err", e |-> e, text |-> <<>>]

NoScan == [st |-> "off", marker |-> 0, out |-> <<>>, trunc |-> FALSE]
DoneScan == [NoScan EXCEPT !.st = "done"]
NoChan == [k |-> "none", v |-> <<>>]

\* &BashSession{running: true, ...} with its started bash process, pipes
\* and stderr drainer.
NewSession ==
    [running |-> TRUE,
     mutex |-> 0,               \* bs.mutex: 0, or the task holding it
     proc |-> "alive",          \* "alive", "exited" (not reaped), "reaped"
     sigSent |-> 0,             \* signals delivered to the process
     killCalls |-> 0,           \* calls of cmd.Process.Kill()
     closeCalls |-> 0,          \* calls of Close() on each pipe
     pipesClosed |-> FALSE,
     shell |-> "idle",          \* "idle", "busy", "echo", "gone"
     doomed |-> FALSE,          \* a background job is about to kill the shell
     cwd |-> "home",
     cur |-> NoCmd,             \* the command the shell is running
     curNo |-> 0,
     status |-> 0,              \* $?
     stdin |-> <<>>,            \* lines written and not yet read by the shell
     stdout |-> <<>>,           \* bytes written and not yet read by the scanner
     stderr |-> <<>>,           \* bytes written and not yet read by the drainer
     stderrBuf |-> <<>>,
     drainer |-> "run",         \* "run", "done" (stderrDone closed)
     scan |-> NoScan,           \* the output-scanning goroutine of the last execute
     chan |-> NoChan,           \* outputChan / errorChan of the last execute
     fate |-> "none"]           \* how an execute ended the session, if one did

\* The transport after Start: running is set, waitGroup counts the reader
\* loop, which is in ReadString; Stop() has not been called.
Started ==
    [running |-> TRUE,
     stopChan |-> "open",       \* "open", "closed"
     waitGroup |-> 1,           \* 1 until processRequests returns
     stop |-> "no"]             \* Stop(): "no", "wait" (in waitGroup.Wait), "returned"

NoPrev == [k |-> "none", pid |-> 0, cwd |-> "home", cut |-> FALSE]

\* A tool call: its arguments, what its ExecuteCommand found and did, and its
\* result.
NoCall ==
    [cmd |-> NoCmd, restart |-> FALSE,
     no |-> 0,                  \* the call's number (its marker's clock reading)
     pid |-> 0,                 \* the session its execute runs on
     since |-> 0,               \* ticks since execute was entered
     timer |-> -1,              \* ticks since the timeout context was made, -1 before
     res |-> NoRes,
     found |-> 0,               \* bm.session as ExecuteCommand found it
     foundRunning |-> FALSE,    \* bm.session.running as ExecuteCommand read it
     sawFate |-> "none",        \* how the session found had ended, if it had
     made |-> 0,                \* the session ExecuteCommand created
     seenCwd |-> "none",        \* the directory the shell ran the command in
     echoed |-> FALSE,          \* the marker echo ran before the timer fired
     after |-> NoPrev]          \* the manager operation that came before

Init ==
    /\ pc = [t \in Tasks |-> "idle"]
    /\ call = [t \in Tasks |-> NoCall]
    /\ calls = 0
    /\ mgrLock = 0
    /\ session = 0
    /\ sess = <<>>
    /\ prev = NoPrev
    /\ down = "no"
    /\ initialized = FALSE
    /\ frames = [f \in Slots |-> NoFrame]
    /\ tmutex = 0
    /\ wbuf = <<>>
    /\ stream = <<>>
    /\ transport = Started

\* ----------------------------------------------------------- BashSession
\* consumeStderr: the buffer is returned (r.stderrBuf) and reset.
consumeStderr(r) ==
    [r EXCEPT !.stderrBuf = <<>>]

\* The bash process is no more: what it held in memory goes with it, and
\* what was written to its stdin is never read.
Gone(r) ==
    [r EXCEPT !.shell = "gone", !.stdin = <<>>, !.cur = NoCmd, !.curNo = 0, !.status = 0,
              !.cwd = "home", !.doomed = FALSE]

\* Mutant: close() marks the session not running and leaves the process be.
closeNoKill(r) ==
    [r EXCEPT !.running = FALSE, !.closeCalls = @ + 1]

\* Mutant: Kill() delivers a signal every time it is called.
closeKillsAgain(r) ==
    [Gone(r) EXCEPT !.running = FALSE,
                    !.closeCalls = @ + 1,
                    !.pipesClosed = TRUE,
                    !.stdout = <<>>,
                    !.stderr = <<>>,
                    !.killCalls = @ + 1,
                    !.sigSent = @ + 1,
                    !.proc = "reaped"]

\* Mutant: close() does everything but clear the running flag.
closeLeavesRunning(r) ==
    [Gone(r) EXCEPT !.closeCalls = @ + 1,
                    !.pipesClosed = TRUE,
                    !.stdout = <<>>,
                    !.stderr = <<>>,
                    !.killCalls = @ + 1,
                    !.sigSent = IF r.proc = "reaped" THEN @ ELSE @ + 1,
                    !.proc = "reaped"]

\* close(): running = false, the three pipes closed, Kill() and Wait().
\* Kill() delivers a signal unless the process was already reaped (then it
\* returns os.ErrProcessDone).  The wait for stderrDone is bounded, so close
\* returns whether or not the drainer has exited.
close(r) ==
    [Gone(r) EXCEPT !.running = FALSE,
                    !.closeCalls = @ + 1,
                    !.pipesClosed = TRUE,
                    !.stdout = <<>>,
                    !.stderr = <<>>,
                    !.killCalls = @ + 1,
                    !.sigSent = IF r.proc = "reaped" THEN @ ELSE @ + 1,
                    !.proc = "reaped"]

\* The output-scanning goroutine's treatment of one line.
\*   marker line: the exit code is what follows the marker; anything but "0"
\*   is noted; the output goes to outputChan and the goroutine ends.
\*   other line: kept while the builder is under the cap, else the
\*   truncation notice is written once.
\* Mutant: the cap test counts the newline about to be written.
CapReachedEarly(out) == ~(Bytes(out) + 1 < MaxOutputSize)

\* if !truncated && output.Len() < MaxOutputSize: the negation of its second
\* half.
CapReached(out) == ~(Bytes(out) < MaxOutputSize)

\* if strings.HasPrefix(line, marker)
IsMarkerLine(line, m) == HasPrefix(line, m)

\* Mutant: the exit code is noted whatever it is.
ExitCodeNotedAlways(exitCode) == TRUE

\* if exitCode != "0"
ExitCodeNoted(exitCode) == exitCode # << StatusText(0) >>

\* Mutant: once the output is truncated the goroutine hands it over and
\* ends, leaving the rest of the stream unread.
SkipLineStops(r) ==
    [r EXCEPT !.scan = DoneScan, !.chan = [k |-> "out", v |-> r.scan.out]]

\* A line that comes after the truncation notice is dropped, and the loop
\* goes on to the marker.
SkipLine(r) == r

ScanOne(r, line) ==
    IF IsMarkerLine(line, r.scan.marker)
    THEN LET exitCode == TrimPrefix(line, r.scan.marker)
             out == IF ExitCodeNoted(exitCode) THEN r.scan.out \o ExitNote(exitCode)
                    ELSE r.scan.out
         IN [r EXCEPT !.scan = DoneScan, !.chan = [k |-> "out", v |-> out]]
    ELSE IF ~r.scan.trunc /\ ~CapReached(r.scan.out)
         THEN [r EXCEPT !.scan.out = @ \o line \o << NL >>]
         ELSE IF ~r.scan.trunc
              THEN [r EXCEPT !.scan.trunc = TRUE, !.scan.out = @ \o TruncationNotice]
              ELSE SkipLine(r)

\* The select's output branch: trailing newlines trimmed, then (after the
\* 50 ms sleep) whatever the drainer has buffered is appended.
ResultText(output, stderrOutput) ==
    IF stderrOutput # <<>>
    THEN TrimRightNL(output) \o StderrHeader \o stderrOutput
    ELSE TrimRightNL(output)

\* The end of the stdout stream as the scanner sees it: the write end is
\* closed (bash is gone) or the read end was closed by close().
StdoutEnded(r) == r.proc # "alive" \/ r.pipesClosed

\* scanner.Scan() has a token to return.
TokenReady(r) ==
    \/ FirstNL(r.stdout, 1) # 0
    \/ TokenTooLong(r.stdout)
    \/ (StdoutEnded(r) /\ r.stdout # <<>>)

\* ----------------------------------------------------------- time
MaxClock == TimeoutTicks + 1

InExecute(t) == pc[t] \in { "execute", "write", "blocked", "select" }
Suspended(t) == pc[t] \in { "blocked", "select" }
TimerFired(t) == call[t].timer >= TimeoutTicks

\* ----------------------------------------------------------- BashManager
\* Mutant: ExecuteCommand and RestartSession do not take the manager lock.
ManagerLockIgnored == TRUE

\* bm.sessionMutex.Lock() can be taken.
ManagerLockFree == mgrLock = 0

\* exec.Cmd.Start() and the pipe calls can fail at any time; the model has
\* no more than MaxProcs processes, so a start beyond that fails.
CreateOutcomes(ss) == IF Len(ss) < MaxProcs THEN BOOLEAN ELSE { FALSE }

Up == down # "exited"

\* A tool call arrives and is given to its own goroutine (the first task not
\* in use).  Its command text is first looked at by execute, and is drawn
\* there.
\* (n bounds the number of calls.)
StartCallUpTo(t, n) ==
    /\ Up
    /\ pc[t] = "idle"
    /\ \A u \in Tasks : u < t => pc[u] # "idle"
    /\ calls < n
    /\ \E restart \in BOOLEAN :
         /\ call' = [call EXCEPT ![t] = [NoCall EXCEPT !.restart = restart, !.no = calls + 1]]
         /\ pc' = [pc EXCEPT ![t] = IF restart THEN "restart" ELSE "exec"]
    /\ calls' = calls + 1
    /\ UNCHANGED << mgrLock, session, sess, prev, down, rpc >>

StartCall(t) == StartCallUpTo(t, MaxCalls)

\* RestartSession(): under the lock, close the session if there is one, then
\* createSession().  handleToolCall returns "Failed to restart session" when
\* it fails and goes on to ExecuteCommand when it succeeds.
RestartSession(t) ==
    /\ Up
    /\ pc[t] = "restart"
    /\ ManagerLockFree
    /\ session # 0 => sess[session].mutex = 0
    /\ LET closed == IF session # 0 THEN [sess EXCEPT ![session] = close(@)] ELSE sess
       IN \E ok \in CreateOutcomes(closed) :
            IF ok
            THEN /\ sess' = Append(closed, NewSession)
                 /\ session' = Len(closed) + 1
                 /\ pc' = [pc EXCEPT ![t] = "exec"]
                 /\ prev' = [k |-> "restart", pid |-> Len(closed) + 1, cwd |-> "home", cut |-> FALSE]
                 /\ UNCHANGED call
            ELSE /\ sess' = closed
                 /\ UNCHANGED session
                 /\ pc' = [pc EXCEPT ![t] = "done"]
                 /\ call' = [call EXCEPT ![t].res = Err("restart")]
                 /\ prev' = [k |-> "fail", pid |-> session, cwd |-> "home", cut |-> FALSE]
    /\ UNCHANGED << calls, mgrLock, down, rpc >>

\* Mutant: every ExecuteCommand replaces the session.
NeedsNewSessionAlways == TRUE

\* if bm.session == nil || !bm.session.running
NeedsNewSession == session = 0 \/ ~sess[session].running

\* ExecuteCommand(), up to its call of execute: under the lock, a missing or
\* dead session is closed (if there is one) and replaced.
ExecuteCommand(t) ==
    /\ Up
    /\ pc[t] = "exec"
    /\ ManagerLockFree
    /\ LET dead == NeedsNewSession
           closed == IF session # 0 /\ dead THEN [sess EXCEPT ![session] = close(@)] ELSE sess
           seen == [call[t] EXCEPT !.found = session,
                                   !.foundRunning = (session # 0 /\ sess[session].running),
                                   !.sawFate = IF session = 0 THEN "none" ELSE sess[session].fate,
                                   !.after = prev]
       IN /\ (session # 0 /\ dead) => sess[session].mutex = 0
          /\ IF dead
             THEN \E ok \in CreateOutcomes(closed) :
                    IF ok
                    THEN /\ sess' = Append(closed, NewSession)
                         /\ session' = Len(closed) + 1
                         /\ call' = [call EXCEPT ![t] = [seen EXCEPT !.made = Len(closed) + 1,
                                                                     !.pid = Len(closed) + 1]]
                         /\ pc' = [pc EXCEPT ![t] = "execute"]
                         /\ mgrLock' = t
                         /\ UNCHANGED prev
                    ELSE /\ sess' = closed
                         /\ UNCHANGED << session, mgrLock >>
                         /\ call' = [call EXCEPT ![t] = [seen EXCEPT !.res = Err("create")]]
                         /\ pc' = [pc EXCEPT ![t] = "done"]
                         /\ prev' = [k |-> "fail", pid |-> session, cwd |-> "home", cut |-> FALSE]
             ELSE /\ call' = [call EXCEPT ![t] = [seen EXCEPT !.pid = session]]
                  /\ pc' = [pc EXCEPT ![t] = "execute"]
                  /\ mgrLock' = t
                  /\ UNCHANGED << sess, session, prev >>
    /\ UNCHANGED << calls, down, rpc >>

\* A return of execute, and with it of ExecuteCommand: both locks released.
Return(t, ss, res, how) ==
    /\ sess' = [ss EXCEPT ![call[t].pid].mutex = 0]
    /\ call' = [call EXCEPT ![t].res = res]
    /\ pc' = [pc EXCEPT ![t] = "done"]
    /\ mgrLock' = 0
    /\ prev' = [k |-> how, pid |-> call[t].pid,
                cwd |-> IF how = "ok" THEN ss[call[t].pid].cwd ELSE "home",
                cut |-> \E i \in 1..Len(res.text) : res.text[i] = NoticeBody]
    /\ UNCHANGED << calls, session, down, rpc >>

\* execute(), up to the write: bs.mutex taken, the running check, the
\* stderr buffer cleared, the marker made.
Execute(t, C) ==
    /\ Up
    /\ pc[t] = "execute"
    /\ sess[call[t].pid].mutex = 0
    /\ IF ~sess[call[t].pid].running
       THEN Return(t, sess, Err("not running"), "fail")
       ELSE /\ sess' = [sess EXCEPT ![call[t].pid] = [consumeStderr(@) EXCEPT !.mutex = t]]
            /\ \E c \in C : call' = [call EXCEPT ![t].cmd = c]
            /\ pc' = [pc EXCEPT ![t] = "write"]
            /\ UNCHANGED << calls, mgrLock, session, prev, down, rpc >>

\* handleToolCall returns the result (or "Error: ...") as the call's response.
Respond(t) ==
    /\ Up
    /\ pc[t] = "done"
    /\ pc' = [pc EXCEPT ![t] = "idle"]
    /\ call' = [call EXCEPT ![t] = NoCall]
    /\ UNCHANGED << calls, mgrLock, session, sess, prev, down, rpc >>

\* Mutant: the failure is returned and the session stays marked running.
FailedStillRunning(r, how) ==
    [r EXCEPT !.fate = how]

\* A session-fatal failure of execute: bs.running = false.  (fate records
\* which failure it was.)
Failed(r, how) ==
    [r EXCEPT !.running = FALSE, !.fate = how]

\* The write end of stdin has no reader once bash is gone: Write fails.
WriteFails(r) == r.proc # "alive" \/ r.pipesClosed

\* The timeout context is made and the scanning goroutine started.
Armed(c) == [c EXCEPT !.timer = 0]
Scanning(r, m) ==
    [r EXCEPT !.scan = [st |-> "on", marker |-> m, out |-> <<>>, trunc |-> FALSE],
              !.chan = NoChan]

CmdItem(c, m) == [k |-> "cmd", c |-> c, m |-> m]
EchoItem(c, m) == [k |-> "echo", c |-> c, m |-> m]

\* bs.stdin.Write(fullCommand).  The write returns once the pipe has taken
\* all of the text; with a tail larger than the pipe it blocks until the
\* shell reads on, which it does only after the first line has finished.
Write(t) ==
    /\ Up
    /\ pc[t] = "write"
    /\ LET s == call[t].pid
           c == call[t].cmd
           m == call[t].no
       IN IF WriteFails(sess[s])
          THEN Return(t, [sess EXCEPT ![s] = Failed(@, "write")],
                      Err("write"), "fail")
          ELSE IF c.bigTail
               THEN /\ sess' = [sess EXCEPT ![s].stdin = @ \o << CmdItem(c, m) >>]
                    /\ pc' = [pc EXCEPT ![t] = "blocked"]
                    /\ UNCHANGED << call, calls, mgrLock, session, prev, down, rpc >>
               ELSE /\ sess' = [sess EXCEPT ![s] =
                                  Scanning([@ EXCEPT !.stdin = @ \o << CmdItem(c, m), EchoItem(c, m) >>], m)]
                    /\ call' = [call EXCEPT ![t] = Armed(@)]
                    /\ pc' = [pc EXCEPT ![t] = "select"]
                    /\ UNCHANGED << calls, mgrLock, session, prev, down, rpc >>

\* The blocked write goes on when the shell has finished the first line, or
\* fails when bash is gone.
WriteResume(t) ==
    /\ Up
    /\ pc[t] = "blocked"
    /\ LET s == call[t].pid
           c == call[t].cmd
           m == call[t].no
       IN /\ WriteFails(sess[s]) \/ sess[s].shell = "echo"
          /\ IF WriteFails(sess[s])
             THEN Return(t, [sess EXCEPT ![s] = Failed(@, "write")],
                         Err("write"), "fail")
             ELSE /\ sess' = [sess EXCEPT ![s] =
                                Scanning([@ EXCEPT !.stdin = @ \o << EchoItem(c, m) >>], m)]
                  /\ call' = [call EXCEPT ![t] = Armed(@)]
                  /\ pc' = [pc EXCEPT ![t] = "select"]
                  /\ UNCHANGED << calls, mgrLock, session, prev, down, rpc >>

\* case <-ctx.Done()
SelectTimeout(t) ==
    /\ Up
    /\ pc[t] = "select"
    /\ TimerFired(t)
    /\ Return(t, [sess EXCEPT ![call[t].pid] = Failed(@, "timeout")],
              Err("timeout"), "fail")

\* case err := <-errorChan
SelectError(t) ==
    /\ Up
    /\ pc[t] = "select"
    /\ sess[call[t].pid].chan.k = "err"
    /\ Return(t, [sess EXCEPT ![call[t].pid] = [Failed(@, "read") EXCEPT !.chan = NoChan]],
              Err("read"), "fail")

\* case output := <-outputChan
SelectOutput(t) ==
    /\ Up
    /\ pc[t] = "select"
    /\ sess[call[t].pid].chan.k = "out"
    /\ Return(t, [sess EXCEPT ![call[t].pid] = [consumeStderr(@) EXCEPT !.chan = NoChan]],
              Ok(ResultText(sess[call[t].pid].chan.v, sess[call[t].pid].stderrBuf)), "ok")

\* ------------------------------------------------- the scanning goroutine
\* Mutant: outputChan and errorChan are unbuffered, so a send waits for
\* the execute to be in its select.
CanSendUnbuffered(s) ==
    \E t \in Tasks : pc[t] = "select" /\ call[t].pid = s

\* make(chan string, 1), make(chan error, 1): a send goes through while
\* the channel's one place is empty.
CanSend(s) == sess[s].chan.k = "none"

\* The next token makes the goroutine send: the marker line, or a line too
\* long for the scanner.
Sends(r) ==
    TokenTooLong(r.stdout) \/ IsMarkerLine(DropCR(RawLine(r.stdout)), r.scan.marker)

\* for scanner.Scan() { ... }: one token of the session's stdout.
ScanLine(s) ==
    /\ Up
    /\ s \in 1..Len(sess)
    /\ sess[s].scan.st = "on"
    /\ ~sess[s].pipesClosed
    /\ TokenReady(sess[s])
    /\ Sends(sess[s]) => CanSend(s)
    /\ sess' = [sess EXCEPT ![s] =
                  IF TokenTooLong(@.stdout)
                  THEN [@ EXCEPT !.scan = DoneScan, !.chan = [k |-> "err", v |-> <<>>]]
                  ELSE ScanOne([@ EXCEPT !.stdout = AfterLine(@)], DropCR(RawLine(@.stdout)))]
    /\ UNCHANGED << pc, call, calls, mgrLock, session, prev, down, rpc >>

\* scanner.Scan() returns false: the stream ended (or the read failed on the
\* closed pipe) before the marker.  errorChan has room for the one value.
ScanEnd(s) ==
    /\ Up
    /\ s \in 1..Len(sess)
    /\ sess[s].scan.st = "on"
    /\ StdoutEnded(sess[s])
    /\ sess[s].pipesClosed \/ sess[s].stdout = <<>>
    /\ CanSend(s)
    /\ sess' = [sess EXCEPT ![s].scan = DoneScan, ![s].chan = [k |-> "err", v |-> <<>>]]
    /\ UNCHANGED << pc, call, calls, mgrLock, session, prev, down, rpc >>

\* ------------------------------------------------------ the stderr drainer
\* Mutant: the drainer appends under bs.mutex, which execute holds from
\* its entry to its return.
StderrLockIsSessionLock(s) == sess[s].mutex = 0

\* bs.stderrMutex.Lock() in the drainer: the lock is taken only around the
\* drainer's append and inside consumeStderr, straight-line code that
\* waits for nothing, so it is free whenever the drainer asks for it.
StderrLockFree(s) == TRUE

\* drainStderr's loop: one line of stderr, kept while the buffer is under
\* the cap.
Drain(s) ==
    /\ Up
    /\ s \in 1..Len(sess)
    /\ sess[s].drainer = "run"
    /\ StderrLockFree(s)
    /\ ~sess[s].pipesClosed
    /\ FirstNL(sess[s].stderr, 1) # 0
    /\ ~TokenTooLong(sess[s].stderr)
    /\ sess' = [sess EXCEPT ![s].stderr = AfterLine(@),
                            ![s].stderrBuf =
                               IF Bytes(@) < MaxOutputSize
                               THEN @ \o DropCR(RawLine(sess[s].stderr)) \o << NL >>
                               ELSE @]
    /\ UNCHANGED << pc, call, calls, mgrLock, session, prev, down, rpc >>

\* The drainer's Scan() returns false with ErrTooLong on a line that does
\* not fit its buffer: the error is logged and the drainer ends, leaving
\* the rest of stderr unread.
DrainTooLong(s) ==
    /\ Up
    /\ s \in 1..Len(sess)
    /\ sess[s].drainer = "run"
    /\ ~sess[s].pipesClosed
    /\ TokenTooLong(sess[s].stderr)
    /\ sess' = [sess EXCEPT ![s].drainer = "done"]
    /\ UNCHANGED << pc, call, calls, mgrLock, session, prev, down, rpc >>

\* The drainer's Scan() returns false once the pipe is closed or at its end.
DrainerExit(s) ==
    /\ Up
    /\ s \in 1..Len(sess)
    /\ sess[s].drainer = "run"
    /\ sess[s].pipesClosed \/ (sess[s].proc # "alive" /\ sess[s].stderr = <<>>)
    /\ sess' = [sess EXCEPT ![s].drainer = "done"]
    /\ UNCHANGED << pc, call, calls, mgrLock, session, prev, down, rpc >>

\* ------------------------------------------------------------------ bash
\* The tasks whose call wrote the line with marker m.
Owners(m) == { t \in Tasks : call[t].no = m }

\* bash reads the next command line and starts it.
ShellStart(s) ==
    /\ Up
    /\ s \in 1..Len(sess)
    /\ sess[s].proc = "alive"
    /\ sess[s].shell = "idle"
    /\ sess[s].stdin # <<>>
    /\ Head(sess[s].stdin).k = "cmd"
    /\ sess' = [sess EXCEPT ![s].shell = "busy",
                            ![s].cur = Head(sess[s].stdin).c,
                            ![s].curNo = Head(sess[s].stdin).m,
                            ![s].stdin = Tail(@)]
    /\ call' = [t \in Tasks |->
                  IF t \in Owners(Head(sess[s].stdin).m)
                  THEN [call[t] EXCEPT !.seenCwd = sess[s].cwd]
                  ELSE call[t]]
    /\ UNCHANGED << pc, calls, mgrLock, session, prev, down, rpc >>

\* The command finishes: its output is written, $? is set, cd has changed
\* the directory; the exit builtin ends bash instead.
ShellFinish(s) ==
    /\ Up
    /\ s \in 1..Len(sess)
    /\ sess[s].proc = "alive"
    /\ sess[s].shell = "busy"
    /\ sess[s].cur.kind # "hang"
    /\ LET r == sess[s]
       IN sess' = [sess EXCEPT ![s] =
                     IF r.cur.kind = "exit"
                     THEN [Gone(r) EXCEPT !.proc = "exited"]
                     ELSE [r EXCEPT !.shell = "echo",
                                    !.stdout = @ \o CmdStdout(r.cur, r.curNo, r.cwd),
                                    !.stderr = @ \o CmdStderr(r.cur, r.curNo),
                                    !.cwd = IF r.cur.kind = "cd" THEN "tmp" ELSE @,
                                    !.doomed = (r.cur.kind = "bomb"),
                                    !.status = r.cur.status]]
    /\ UNCHANGED << pc, call, calls, mgrLock, session, prev, down, rpc >>

\* bash reads and runs the line  echo '<marker>'$?
ShellEcho(s) ==
    /\ Up
    /\ s \in 1..Len(sess)
    /\ sess[s].proc = "alive"
    /\ sess[s].shell = "echo"
    /\ sess[s].stdin # <<>>
    /\ Head(sess[s].stdin).k = "echo"
    /\ sess' = [sess EXCEPT ![s].shell = "idle",
                            ![s].stdin = Tail(@),
                            ![s].stdout = @ \o << Marker(Head(sess[s].stdin).m),
                                                  StatusText(sess[s].status), NL >>,
                            ![s].status = 0]
    /\ call' = [t \in Tasks |->
                  IF t \in Owners(Head(sess[s].stdin).m) /\ pc[t] = "select" /\ ~TimerFired(t)
                  THEN [call[t] EXCEPT !.echoed = TRUE]
                  ELSE call[t]]
    /\ UNCHANGED << pc, calls, mgrLock, session, prev, down, rpc >>

\* bash is killed by the background job a command left behind.
ShellCrash(s) ==
    /\ Up
    /\ s \in 1..Len(sess)
    /\ sess[s].proc = "alive"
    /\ sess[s].doomed
    /\ sess' = [sess EXCEPT ![s] = [Gone(@) EXCEPT !.proc = "exited"]]
    /\ UNCHANGED << pc, call, calls, mgrLock, session, prev, down, rpc >>

\* ------------------------------------------------------------------ time
\* Time passes only while every execute in progress is suspended (in the
\* blocked write or in the select) with nothing ready for it to go on with.
Ready(t) ==
    \/ TimerFired(t)
    \/ pc[t] = "select" /\ sess[call[t].pid].chan.k # "none"
    \/ pc[t] = "select" /\ sess[call[t].pid].scan.st = "on" /\ TokenReady(sess[call[t].pid])
    \/ pc[t] = "blocked" /\ call[t].since >= MaxClock

Tick ==
    /\ Up
    /\ \E t \in Tasks : Suspended(t)
    /\ \A t \in Tasks : InExecute(t) => Suspended(t) /\ ~Ready(t)
    /\ call' = [t \in Tasks |->
                  IF Suspended(t)
                  THEN [call[t] EXCEPT !.since = IF @ < MaxClock THEN @ + 1 ELSE @,
                                       !.timer = IF @ >= 0 THEN @ + 1 ELSE @]
                  ELSE call[t]]
    /\ UNCHANGED << pc, calls, mgrLock, session, sess, prev, down, rpc >>

\* -------------------------------------------------------------- shutdown
\* main's signal goroutine: bashManager.Close(), then os.Exit(0).
ManagerClose ==
    /\ down = "no"
    /\ ManagerLockFree
    /\ session # 0 => sess[session].mutex = 0
    /\ sess' = IF session # 0 THEN [sess EXCEPT ![session] = close(@)] ELSE sess
    /\ session' = 0
    /\ prev' = [k |-> "close", pid |-> session, cwd |-> "home", cut |-> FALSE]
    /\ down' = "closed"
    /\ UNCHANGED << pc, call, calls, mgrLock, rpc >>

Exit ==
    /\ down = "closed"
    /\ down' = "exited"
    /\ UNCHANGED << pc, call, calls, mgrLock, session, sess, prev, rpc >>

\* ------------------------------------------------------------ transport
\* The goroutines that have not returned.
InFlight == { g \in Slots : frames[g].st \notin { "none", "done" } }

\* processRequests: a line is read from stdin and given to a goroutine of
\* its own (go t.handleAndRespond); the loop goes on reading, unless it
\* finds stopChan closed and returns.
\* (The model reads n messages at most, drawn from M, and has no more
\* goroutines at a time than there are tasks.)
ReadFrame(f, n, M) ==
    /\ Up
    /\ transport.waitGroup = 1
    /\ f <= n
    /\ frames[f].st = "none"
    /\ \A g \in Slots : g < f => frames[g].st # "none"
    /\ Cardinality(InFlight) < Cardinality(Tasks)
    /\ \E m \in M :
         frames' = [frames EXCEPT ![f] = [NoFrame EXCEPT !.st = "handle", !.msg = m]]
    /\ transport' = [transport EXCEPT !.waitGroup = IF transport.stopChan = "closed" THEN 0 ELSE 1]
    /\ UNCHANGED << pc, call, calls, mgrLock, session, sess, prev, down,
                    initialized, tmutex, wbuf, stream >>

\* Mutant: the response is built without request.ID.
IdOfNull(f) == 0

\* The id a response to the message of slot f carries: request.ID.
IdOf(f) == IF frames[f].msg.hasId THEN f ELSE 0

\* handler(data) returned the response r: handleAndRespond goes on to write
\* it, or returns at once when it is empty or the handler failed.
Replied(f, r) ==
    [frames[f] EXCEPT !.st = IF r.k = "none" THEN "done" ELSE "reply",
                      !.uninit = ~initialized,
                      !.resp = r]

\* The task a tool call runs on: the first one not in use.
FreeTask(t) == pc[t] = "idle" /\ \A u \in Tasks : u < t => pc[u] # "idle"

\* The tools/call handler up to bashManager: the params must hold a
\* CallToolRequest, the tool must be "bash", its arguments must parse and
\* name a command.
ToolCallRejected(f) ==
    LET p == frames[f].msg.params
    IN CASE p = "bad" -> ErrorResp(IdOf(f), CodeHandlerError)
         [] p = "unknown" -> createErrorResponse(IdOf(f), "Unknown tool")
         [] p = "badargs" -> createErrorResponse(IdOf(f), "invalid arguments for bash tool")
         [] OTHER -> createErrorResponse(IdOf(f), "command parameter is required")

\* params.Restart as ParseBashArgs unmarshals it.
WantsRestart(p) == p \in { "restart", "restartonly" }

\* Mutant: handleToolCall restarts the session before it looks at the
\* error of ParseBashArgs.
RejectedAfterRestart(p) == p \notin { "run", "restart", "restartonly" }

\* The tools/call handler returns before bashManager is used: the params
\* hold no CallToolRequest, the tool is not "bash", or ParseBashArgs
\* returned an error (arguments that do not parse, an empty command).
Rejected(p) == p \notin { "run", "restart" }

\* Mutant: processRequests calls handleAndRespond itself, so a message is
\* handled only when the messages before it have been.
ScheduledInline(f) ==
    frames[f].st = "handle" /\ \A g \in Slots : g < f => frames[g].st = "done"

\* go t.handleAndRespond(line): the message has a goroutine of its own,
\* which runs whatever the others are doing.
Scheduled(f) == frames[f].st = "handle"

\* Mutant: a line that does not parse is answered with a parse error.
ParseFailureAnswered == ErrorResp(0, -32700)

\* json.Unmarshal(data, &request) fails: handleRequest returns the error
\* and no response, and handleAndRespond logs it and returns.
ParseFailure == NoResp

\* Mutant: handleInitialize leaves s.initialized as it is.
InitializedLeft == initialized

\* handleInitialize, before it returns the response: s.initialized = true
InitializedSet == TRUE

\* Server.handleRequest, up to the return of the handler or, for a bash
\* tool call, up to the call of bashManager.  NH is s.notificationHandlers:
\* the methods SetNotificationHandler was called for.
Route(f, NH) ==
    /\ Up
    /\ Scheduled(f)
    /\ LET x == frames[f].msg
           m == x.method
           answer(r) == /\ frames' = [frames EXCEPT ![f] = Replied(f, r)]
                        /\ UNCHANGED << pc, call, calls, initialized >>
       IN IF ~x.parses THEN answer(ParseFailure)
          ELSE IF m = << "initialize" >>
          THEN IF x.params = "bad"
               THEN answer(ErrorResp(IdOf(f), CodeInvalidParams))
               ELSE /\ frames' = [frames EXCEPT ![f] = Replied(f, InitializeResult(IdOf(f), x.params))]
                    /\ initialized' = InitializedSet
                    /\ UNCHANGED << pc, call, calls >>
          ELSE IF m = << "notifications", "initialized" >> \/ m = << "initialized" >>
          THEN /\ frames' = [frames EXCEPT ![f] = Replied(f, NoResp)]
               /\ initialized' = TRUE
               /\ UNCHANGED << pc, call, calls >>
          ELSE IF IsNotificationMethod(m)
          THEN /\ frames' = [frames EXCEPT ![f] = [Replied(f, NoResp) EXCEPT !.nh = (m \in NH)]]
               /\ UNCHANGED << pc, call, calls, initialized >>
          ELSE IF ~initialized /\ m # << "ping" >>
          THEN answer(ErrorResp(IdOf(f), CodeNotInitialized))
          ELSE IF m \notin Handlers
          THEN answer(ErrorResp(IdOf(f), CodeMethodNotFound))
          ELSE IF m = << "tools", "list" >>
          THEN answer(ResultResp(IdOf(f), "tools"))
          ELSE IF Rejected(x.params)
          THEN answer(ToolCallRejected(f))
          ELSE \E t \in Tasks :
                 /\ FreeTask(t)
                 /\ frames' = [frames EXCEPT ![f] = [@ EXCEPT !.st = "tool", !.uninit = ~initialized, !.t = t]]
                 /\ call' = [call EXCEPT ![t] = [NoCall EXCEPT !.restart = WantsRestart(x.params),
                                                              !.no = calls + 1]]
                 /\ pc' = [pc EXCEPT ![t] = IF WantsRestart(x.params) THEN "restart" ELSE "exec"]
                 /\ calls' = calls + 1
                 /\ UNCHANGED initialized
    /\ UNCHANGED << mgrLock, session, sess, prev, down, transport, tmutex, wbuf, stream >>

\* main registers request handlers only: s.notificationHandlers is empty.
NotificationHandlers == {}

HandleRequest(f) == Route(f, NotificationHandlers)

\* The server with a handler registered for the cancellation notification:
\* server.SetNotificationHandler("notifications/cancelled", ...).
CancelHandlers == { << "notifications", "cancelled" >> }

HandleRequestCancel(f) == Route(f, CancelHandlers)

\* handleToolCall returns: the output as text content, or the failure of
\* RestartSession or ExecuteCommand as createErrorResponse; handleRequest
\* wraps it as the result.
ToolReturn(f) ==
    /\ Up
    /\ frames[f].st = "tool"
    /\ pc[frames[f].t] = "done"
    /\ LET t == frames[f].t
           res == call[t].res
           r == IF res.k = "ok" THEN ResultResp(IdOf(f), "output")
                ELSE IF res = Err("restart")
                     THEN createErrorResponse(IdOf(f), "Failed to restart session")
                     ELSE createErrorResponse(IdOf(f), "Command execution failed")
       IN /\ frames' = [frames EXCEPT ![f] = [@ EXCEPT !.st = "reply", !.resp = r]]
          /\ pc' = [pc EXCEPT ![t] = "idle"]
          /\ call' = [call EXCEPT ![t] = NoCall]
    /\ UNCHANGED << calls, mgrLock, session, sess, prev, down, transport,
                    initialized, tmutex, wbuf, stream >>

\* Mutant: handleAndRespond writes without taking t.mutex.
TransportLockIgnored == TRUE

\* t.mutex.Lock() can be taken.
TransportLockFree == tmutex = 0

Piece(f, part) == [f |-> f, id |-> frames[f].resp.id, part |-> part]

\* handleAndRespond: the newline is appended, t.mutex is taken and
\* t.writer.Write(response) begins to copy the frame into the writer...
LockAndWrite(f) ==
    /\ Up
    /\ frames[f].st = "reply"
    /\ TransportLockFree
    /\ tmutex' = f
    /\ wbuf' = Append(wbuf, Piece(f, "head"))
    /\ frames' = [frames EXCEPT ![f].st = "head"]
    /\ UNCHANGED << pc, call, calls, mgrLock, session, sess, prev, down, transport,
                    initialized, stream >>

\* ... and copies the rest of it, which ends with the newline.
WriteRest(f) ==
    /\ Up
    /\ frames[f].st = "head"
    /\ wbuf' = Append(wbuf, Piece(f, "tail"))
    /\ frames' = [frames EXCEPT ![f].st = "tail"]
    /\ UNCHANGED << pc, call, calls, mgrLock, session, sess, prev, down, transport,
                    initialized, tmutex, stream >>

\* t.writer.Flush(), and the deferred t.mutex.Unlock().
FlushAndUnlock(f) ==
    /\ Up
    /\ frames[f].st = "tail"
    /\ stream' = stream \o wbuf
    /\ wbuf' = <<>>
    /\ tmutex' = 0
    /\ frames' = [frames EXCEPT ![f].st = "done"]
    /\ UNCHANGED << pc, call, calls, mgrLock, session, sess, prev, down, transport,
                    initialized >>

\* The caller of Stop() as a holder of t.mutex: no slot's goroutine.
Stopper == MaxFrames + 2

\* StdioTransport.Stop(), up to waitGroup.Wait(): t.mutex is taken; a
\* transport that is not running is left alone, else stopChan is closed
\* and the caller waits, holding t.mutex, for processRequests to return.
Stop ==
    /\ Up
    /\ transport.stop # "wait"
    /\ TransportLockFree
    /\ IF transport.running
       THEN /\ transport' = [transport EXCEPT !.stopChan = "closed", !.stop = "wait"]
            /\ tmutex' = Stopper
       ELSE /\ transport' = [transport EXCEPT !.stop = "returned"]
            /\ UNCHANGED tmutex
    /\ UNCHANGED << pc, call, calls, mgrLock, session, sess, prev, down,
                    initialized, frames, wbuf, stream >>

\* waitGroup.Wait() returns once processRequests has: running is cleared,
\* the deferred Unlock runs and Stop returns.
StopReturn ==
    /\ Up
    /\ transport.stop = "wait"
    /\ transport.waitGroup = 0
    /\ transport' = [transport EXCEPT !.running = FALSE, !.stop = "returned"]
    /\ tmutex' = 0
    /\ UNCHANGED << pc, call, calls, mgrLock, session, sess, prev, down,
                    initialized, frames, wbuf, stream >>

\* processRequests: ReadString returns io.EOF, the loop returns and the
\* deferred waitGroup.Done() runs.
ReadEOF ==
    /\ Up
    /\ transport.waitGroup = 1
    /\ transport' = [transport EXCEPT !.waitGroup = 0]
    /\ UNCHANGED << pc, call, calls, mgrLock, session, sess, prev, down,
                    initialized, frames, tmutex, wbuf, stream >>

\* ------------------------------------------------------- specifications
Procs == 1..MaxProcs

Next ==
    \/ \E t \in Tasks : StartCall(t)
    \/ \E t \in Tasks : RestartSession(t)
    \/ \E t \in Tasks : ExecuteCommand(t)
    \/ \E t \in Tasks : Execute(t, Commands)
    \/ \E t \in Tasks : Write(t)
    \/ \E t \in Tasks : WriteResume(t)
    \/ \E t \in Tasks : SelectTimeout(t)
    \/ \E t \in Tasks : SelectError(t)
    \/ \E t \in Tasks : SelectOutput(t)
    \/ \E t \in Tasks : Respond(t)
    \/ \E s \in Procs : ScanLine(s)
    \/ \E s \in Procs : ScanEnd(s)
    \/ \E s \in Procs : Drain(s)
    \/ \E s \in Procs : DrainerExit(s)
    \/ \E s \in Procs : ShellStart(s)
    \/ \E s \in Procs : ShellFinish(s)
    \/ \E s \in Procs : ShellEcho(s)
    \/ \E s \in Procs : ShellCrash(s)
    \/ Tick

Spec == Init /\ [][Next]_vars

\* One tool call on a fresh manager, over every shape of output.
OneTask == { 1 }

NextOut ==
    \/ \E t \in OneTask : calls = 0 /\ StartCall(t)
    \/ \E t \in OneTask : RestartSession(t)
    \/ \E t \in OneTask : ExecuteCommand(t)
    \/ \E t \in OneTask : Execute(t, OutputCommands)
    \/ \E t \in OneTask : Write(t)
    \/ \E t \in OneTask : WriteResume(t)
    \/ \E t \in OneTask : SelectTimeout(t)
    \/ \E t \in OneTask : SelectError(t)
    \/ \E t \in OneTask : SelectOutput(t)
    \/ \E t \in OneTask : Respond(t)
    \/ \E s \in Procs : ScanLine(s)
    \/ \E s \in Procs : ScanEnd(s)
    \/ \E s \in Procs : Drain(s)
    \/ \E s \in Procs : DrainerExit(s)
    \/ \E s \in Procs : ShellStart(s)
    \/ \E s \in Procs : ShellFinish(s)
    \/ \E s \in Procs : ShellEcho(s)
    \/ Tick

SpecOut == Init /\ [][NextOut]_vars

\* One call whose command writes diagnostics of every shape.
NextErr ==
    \/ \E t \in OneTask : calls = 0 /\ StartCall(t)
    \/ \E t \in OneTask : RestartSession(t)
    \/ \E t \in OneTask : ExecuteCommand(t)
    \/ \E t \in OneTask : Execute(t, DiagCommands)
    \/ \E t \in OneTask : Write(t)
    \/ \E t \in OneTask : SelectTimeout(t)
    \/ \E t \in OneTask : SelectError(t)
    \/ \E t \in OneTask : SelectOutput(t)
    \/ \E t \in OneTask : Respond(t)
    \/ \E s \in Procs : ScanLine(s)
    \/ \E s \in Procs : ScanEnd(s)
    \/ \E s \in Procs : Drain(s)
    \/ \E s \in Procs : DrainTooLong(s)
    \/ \E s \in Procs : DrainerExit(s)
    \/ \E s \in Procs : ShellStart(s)
    \/ \E s \in Procs : ShellFinish(s)
    \/ \E s \in Procs : ShellEcho(s)
    \/ Tick

SpecErr == Init /\ [][NextErr]_vars

\* Calls one after the other on one task, their commands printing short
\* and long output.
NextSeq ==
    \/ \E t \in OneTask : StartCall(t)
    \/ \E t \in OneTask : RestartSession(t)
    \/ \E t \in OneTask : ExecuteCommand(t)
    \/ \E t \in OneTask : Execute(t, SeqCommands)
    \/ \E t \in OneTask : Write(t)
    \/ \E t \in OneTask : SelectTimeout(t)
    \/ \E t \in OneTask : SelectOutput(t)
    \/ \E t \in OneTask : Respond(t)
    \/ \E s \in Procs : ScanLine(s)
    \/ \E s \in Procs : ScanEnd(s)
    \/ \E s \in Procs : Drain(s)
    \/ \E s \in Procs : DrainerExit(s)
    \/ \E s \in Procs : ShellStart(s)
    \/ \E s \in Procs : ShellFinish(s)
    \/ \E s \in Procs : ShellEcho(s)
    \/ Tick

SpecSeq == Init /\ [][NextSeq]_vars

\* The life of sessions: one task, one call more than MaxCalls, with
\* commands that succeed, time out or end the shell.
LifeCommands ==
    { Cmd("pwd", <<>>, FALSE, FALSE, 0, 0, FALSE),
      Cmd("hang", <<>>, FALSE, FALSE, 0, 0, FALSE),
      Cmd("exit", <<>>, FALSE, FALSE, 7, 0, FALSE) }

NextLife ==
    \/ \E t \in OneTask : StartCallUpTo(t, MaxCalls + 1)
    \/ \E t \in OneTask : RestartSession(t)
    \/ \E t \in OneTask : ExecuteCommand(t)
    \/ \E t \in OneTask : Execute(t, LifeCommands)
    \/ \E t \in OneTask : Write(t)
    \/ \E t \in OneTask : SelectTimeout(t)
    \/ \E t \in OneTask : SelectError(t)
    \/ \E t \in OneTask : SelectOutput(t)
    \/ \E t \in OneTask : Respond(t)
    \/ \E s \in Procs : ScanLine(s)
    \/ \E s \in Procs : ScanEnd(s)
    \/ \E s \in Procs : DrainerExit(s)
    \/ \E s \in Procs : ShellStart(s)
    \/ \E s \in Procs : ShellFinish(s)
    \/ \E s \in Procs : ShellEcho(s)
    \/ Tick

SpecLife == Init /\ [][NextLife]_vars

\* Shutdown: tool calls on one task while the signal goroutine closes the
\* manager and ends the process.
NextDown ==
    \/ \E t \in OneTask : StartCall(t)
    \/ \E t \in OneTask : RestartSession(t)
    \/ \E t \in OneTask : ExecuteCommand(t)
    \/ \E t \in OneTask : Execute(t, LifeCommands)
    \/ \E t \in OneTask : Write(t)
    \/ \E t \in OneTask : SelectTimeout(t)
    \/ \E t \in OneTask : SelectError(t)
    \/ \E t \in OneTask : SelectOutput(t)
    \/ \E t \in OneTask : Respond(t)
    \/ \E s \in Procs : ScanLine(s)
    \/ \E s \in Procs : ScanEnd(s)
    \/ \E s \in Procs : DrainerExit(s)
    \/ \E s \in Procs : ShellStart(s)
    \/ \E s \in Procs : ShellFinish(s)
    \/ \E s \in Procs : ShellEcho(s)
    \/ Tick
    \/ ManagerClose
    \/ Exit

SpecDown == Init /\ [][NextDown]_vars

\* The router and the transport: MaxFrames messages of every kind, each
\* handled by its own goroutine.
NextRpc ==
    \/ \E f \in Slots : ReadFrame(f, MaxFrames, RouterMsgs)
    \/ \E f \in Slots : HandleRequest(f)
    \/ \E f \in Slots : LockAndWrite(f)
    \/ \E f \in Slots : WriteRest(f)
    \/ \E f \in Slots : FlushAndUnlock(f)

SpecRpc == Init /\ [][NextRpc]_vars

\* The method table: one message more, of fewer kinds, so that requests
\* of several kinds are routed once the server is ready.
NextTable ==
    \/ \E f \in Slots : ReadFrame(f, MaxFrames + 1, TableMsgs)
    \/ \E f \in Slots : HandleRequest(f)
    \/ \E f \in Slots : LockAndWrite(f)
    \/ \E f \in Slots : WriteRest(f)
    \/ \E f \in Slots : FlushAndUnlock(f)

SpecTable == Init /\ [][NextTable]_vars

\* Stop() called on the running transport while messages are handled.
\* A goroutine that can take a step takes it in the end; when a line or
\* the end of stdin arrives is up to the client.
NextStop ==
    \/ \E f \in Slots : ReadFrame(f, MaxFrames, TableMsgs)
    \/ \E f \in Slots : HandleRequest(f)
    \/ \E f \in Slots : LockAndWrite(f)
    \/ \E f \in Slots : WriteRest(f)
    \/ \E f \in Slots : FlushAndUnlock(f)
    \/ Stop
    \/ StopReturn
    \/ ReadEOF

SpecStop ==
    /\ Init
    /\ [][NextStop]_vars
    /\ WF_vars(StopReturn)
    /\ \A f \in Slots : /\ WF_vars(HandleRequest(f))
                        /\ WF_vars(LockAndWrite(f))
                        /\ WF_vars(WriteRest(f))
                        /\ WF_vars(FlushAndUnlock(f))

\* Tool calls over the wire: the server is made ready and tool calls run
\* on the bash session while further messages arrive.
RpcCommands ==
    { Cmd("pwd", <<>>, FALSE, FALSE, 0, 0, FALSE),
      Cmd("hang", <<>>, FALSE, FALSE, 0, 0, FALSE) }

NextTool ==
    \/ \E f \in Slots : ReadFrame(f, MaxFrames + 1, ToolMsgs)
    \/ \E f \in Slots : HandleRequest(f)
    \/ \E f \in Slots : ToolReturn(f)
    \/ \E f \in Slots : LockAndWrite(f)
    \/ \E f \in Slots : WriteRest(f)
    \/ \E f \in Slots : FlushAndUnlock(f)
    \/ \E t \in Tasks : RestartSession(t)
    \/ \E t \in Tasks : ExecuteCommand(t)
    \/ \E t \in Tasks : Execute(t, RpcCommands)
    \/ \E t \in Tasks : Write(t)
    \/ \E t \in Tasks : SelectTimeout(t)
    \/ \E t \in Tasks : SelectOutput(t)
    \/ \E s \in Procs : ScanLine(s)
    \/ \E s \in Procs : ScanEnd(s)
    \/ \E s \in Procs : DrainerExit(s)
    \/ \E s \in Procs : ShellStart(s)
    \/ \E s \in Procs : ShellFinish(s)
    \/ \E s \in Procs : ShellEcho(s)
    \/ Tick

SpecTool == Init /\ [][NextTool]_vars

\* Tool calls with arguments that are refused, before and after a tool
\* call has made a session.
NextArgs ==
    \/ \E f \in Slots : ReadFrame(f, MaxFrames + 1, ArgMsgs)
    \/ \E f \in Slots : HandleRequest(f)
    \/ \E f \in Slots : ToolReturn(f)
    \/ \E f \in Slots : LockAndWrite(f)
    \/ \E f \in Slots : WriteRest(f)
    \/ \E f \in Slots : FlushAndUnlock(f)
    \/ \E t \in Tasks : ExecuteCommand(t)
    \/ \E t \in Tasks : Execute(t, RpcCommands)
    \/ \E t \in Tasks : Write(t)
    \/ \E t \in Tasks : SelectTimeout(t)
    \/ \E t \in Tasks : SelectOutput(t)
    \/ \E s \in Procs : ScanLine(s)
    \/ \E s \in Procs : ScanEnd(s)
    \/ \E s \in Procs : DrainerExit(s)
    \/ \E s \in Procs : ShellStart(s)
    \/ \E s \in Procs : ShellFinish(s)
    \/ \E s \in Procs : ShellEcho(s)
    \/ Tick

SpecArgs == Init /\ [][NextArgs]_vars

\* Notifications during a command, on a server that has a handler for
\* notifications/cancelled.
NextNotify ==
    \/ \E f \in Slots : ReadFrame(f, MaxFrames + 1, NotifyMsgs)
    \/ \E f \in Slots : HandleRequestCancel(f)
    \/ \E f \in Slots : ToolReturn(f)
    \/ \E f \in Slots : LockAndWrite(f)
    \/ \E f \in Slots : WriteRest(f)
    \/ \E f \in Slots : FlushAndUnlock(f)
    \/ \E t \in Tasks : ExecuteCommand(t)
    \/ \E t \in Tasks : Execute(t, RpcCommands)
    \/ \E t \in Tasks : Write(t)
    \/ \E t \in Tasks : SelectTimeout(t)
    \/ \E t \in Tasks : SelectOutput(t)
    \/ \E s \in Procs : ScanLine(s)
    \/ \E s \in Procs : ScanEnd(s)
    \/ \E s \in Procs : DrainerExit(s)
    \/ \E s \in Procs : ShellStart(s)
    \/ \E s \in Procs : ShellFinish(s)
    \/ \E s \in Procs : ShellEcho(s)
    \/ Tick

SpecNotify == Init /\ [][NextNotify]_vars

\* ================================================================ claims
Done(t) == pc[t] = "done"
Live == 1..Len(sess)

IsPrefix(p, q) == Len(p) <= Len(q) /\ SubSeq(q, 1, Len(p)) = p
EndsWith(q, p) == Len(p) <= Len(q) /\ SubSeq(q, Len(q) - Len(p) + 1, Len(q)) = p

\* C1: at most one task is inside ExecuteCommand's call of execute at a
\* time, it is the holder of the manager lock, and whatever a running
\* session's shell is running or has been handed on stdin was written by
\* that one call: no second command reaches a shell before the execute
\* before it has returned.
C1_OneCommandAtATime ==
    /\ Cardinality({ t \in Tasks : InExecute(t) }) <= 1
    /\ \A t \in Tasks : InExecute(t) => mgrLock = t
    /\ \A s \in Live :
         sess[s].running =>
           /\ \A i \in 1..Len(sess[s].stdin) :
                \E t \in Tasks : /\ InExecute(t)
                                 /\ call[t].pid = s
                                 /\ call[t].no = sess[s].stdin[i].m
           /\ sess[s].shell = "busy" =>
                \E t \in Tasks : InExecute(t) /\ call[t].pid = s /\ call[t].no = sess[s].curNo

\* C1 witness: one call's command is running in the shell while another
\* call waits for the manager lock.
C1_Witness ==
    \E t \in Tasks, u \in Tasks :
       /\ t # u
       /\ pc[t] = "select"
       /\ sess[call[t].pid].shell = "busy"
       /\ pc[u] = "exec"

\* ---------------------------------------------- what a command printed
\* S, the size of the command's output.
OutputSize(c) == Bytes(LinesText(c, 0, 1))

\* Its output as written, and the same with each line's carriage return
\* left out.
Written(t) == LinesText(call[t].cmd, call[t].no, 1)
WrittenNoCR(t) == LinesText([call[t].cmd EXCEPT !.crlf = FALSE], call[t].no, 1)

DropFinalNL(s) == IF s # <<>> /\ s[Len(s)] = NL THEN SubSeq(s, 1, Len(s) - 1) ELSE s

\* Every line of the command, terminator included, fits the scan buffer.
LinesFit(c) ==
    \A i \in 1..Len(c.lines) : c.lines[i] + 2 + 37 + 3 < MaxScannerBufferSize

HasNotice(text) == \E i \in 1..Len(text) : text[i] = NoticeBody

\* "[Exit code: N]"
ExitLine(n) == Chunk("exit", n, 13 + StatusText(n).n)

\* C2: whenever the shell ran the marker echo of a call before the call's
\* timer fired, the call's execute returns success (stated for commands
\* whose lines fit the scan buffer, whatever their last line ends with).
C2_EchoInTimeMeansSuccess ==
    \A t \in Tasks :
       Done(t) /\ call[t].echoed /\ LinesFit(call[t].cmd) => call[t].res.k = "ok"

\* C5: no execute is still in progress once more ticks than the timeout
\* have passed since it was entered.
C5_ReturnsWithinTimeout ==
    \A t \in Tasks : InExecute(t) => call[t].since <= TimeoutTicks

\* C8: a call whose command ended with status N # 0 (so it did not time
\* out; its text fits the pipe and its lines the scan buffer) returned
\* successfully with text ending in "[Exit code: N]".
C8_NonZeroStatusReported ==
    \A t \in Tasks :
       (/\ Done(t)
        /\ call[t].cmd.kind \in { "run", "exit" }
        /\ call[t].cmd.status # 0
        /\ LinesFit(call[t].cmd)
        /\ ~call[t].cmd.bigTail
        /\ call[t].res.e # "timeout")
       => /\ call[t].res.k = "ok"
          /\ EndsWith(call[t].res.text, << ExitLine(call[t].cmd.status) >>)

\* C10: a successful call whose command printed more than MaxOutputSize
\* bytes returned text no longer than MaxOutputSize plus the truncation
\* notice, ending with the notice (with or without the notice's own final
\* newline, which the trim removes).
C10_TruncatedToCap ==
    \A t \in Tasks :
       (Done(t) /\ call[t].res.k = "ok" /\ OutputSize(call[t].cmd) > MaxOutputSize)
       => /\ Bytes(call[t].res.text) <= MaxOutputSize + Bytes(TruncationNotice)
          /\ \/ EndsWith(call[t].res.text, TruncationNotice)
             \/ EndsWith(call[t].res.text, << NL, NoticeBody >>)

\* ------------------------------------------------- sessions that failed
\* The call's ExecuteCommand has looked at bm.session.
Looked(t) == InExecute(t) \/ (Done(t) /\ call[t].res # Err("restart"))

\* The call's ExecuteCommand replaced the session it found: the session it
\* made is a new one and is the one execute runs on; or createSession
\* failed and the call returned that failure.
Replaced(t) ==
    \/ /\ call[t].made # 0
       /\ call[t].made # call[t].found
       /\ call[t].pid = call[t].made
    \/ /\ call[t].made = 0
       /\ Done(t)
       /\ call[t].res = Err("create")

\* C3: a session whose execute ended by timeout is not running; its
\* process has been signalled at most once, and exactly once (and reaped)
\* as soon as it is no longer the manager's session; the ExecuteCommand that
\* finds it installed reads running == false, has signalled the old process
\* exactly once and replaced the session; no execute runs on it again.
C3_TimedOutSessionReplaced ==
    /\ \A s \in Live : sess[s].fate = "timeout" =>
         /\ ~sess[s].running
         /\ sess[s].sigSent <= 1
         /\ session # s => sess[s].sigSent = 1 /\ sess[s].proc = "reaped"
    /\ \A t \in Tasks : Looked(t) /\ call[t].sawFate = "timeout" =>
         /\ ~call[t].foundRunning
         /\ sess[call[t].found].sigSent = 1
         /\ sess[call[t].found].proc = "reaped"
         /\ Replaced(t)
    /\ \A t \in Tasks : pc[t] \in { "write", "blocked", "select" } =>
         sess[call[t].pid].fate = "none"

C3_Witness ==
    \E t \in Tasks :
       /\ Done(t)
       /\ call[t].sawFate = "timeout"
       /\ call[t].made # 0
       /\ call[t].res.k = "ok"
       /\ sess[call[t].found].sigSent = 1

\* C4: a session on which execute failed (write failure, timeout, end of
\* output or read error before the marker) is marked not running and the
\* call that failed holds that failure as its result; the ExecuteCommand
\* that finds such a session replaces it and runs its command on the new
\* one, which has not failed.
C4_FatalFailureThenFreshSession ==
    /\ \A s \in Live : sess[s].fate # "none" => ~sess[s].running
    /\ \A t \in Tasks : Done(t) /\ call[t].res.e \in { "write", "timeout", "read" } =>
         /\ call[t].res.k = "err"
         /\ sess[call[t].pid].fate = call[t].res.e
         /\ ~sess[call[t].pid].running
    /\ \A t \in Tasks : Looked(t) /\ call[t].sawFate # "none" =>
         /\ ~call[t].foundRunning
         /\ Replaced(t)
         /\ call[t].res.e # "not running"
         /\ pc[t] \in { "write", "blocked", "select" } =>
              sess[call[t].pid].running /\ sess[call[t].pid].fate = "none"

C4_Witness ==
    \E t \in Tasks :
       /\ Done(t)
       /\ call[t].sawFate = "write"
       /\ call[t].made # 0
       /\ call[t].pid = call[t].made
       /\ call[t].res.k = "ok"

\* C6: an ExecuteCommand that comes straight after a successful one (no
\* restart, timeout or failure between them) runs on the same session
\* without replacing it; the shell runs its command in the directory the
\* earlier command left, and a successful pwd returns that directory (as
\* the start of its text: diagnostic output may follow).
C6_ShellStatePersists ==
    \A t \in Tasks : Looked(t) /\ call[t].after.k = "ok" =>
       /\ call[t].pid = call[t].after.pid
       /\ call[t].made = 0
       /\ call[t].seenCwd \in { "none", call[t].after.cwd }
       /\ (Done(t) /\ call[t].res.k = "ok" /\ call[t].cmd.kind = "pwd") =>
            IsPrefix(TrimRightNL(CmdStdout(call[t].cmd, call[t].no, call[t].after.cwd)),
                     call[t].res.text)

C6_Witness ==
    \E t \in Tasks :
       /\ Done(t)
       /\ call[t].after.k = "ok"
       /\ call[t].after.cwd = "tmp"
       /\ call[t].cmd.kind = "pwd"
       /\ call[t].seenCwd = "tmp"
       /\ call[t].res.k = "ok"

\* ------------------------------------------------------ the text returned
\* A command that prints newline-terminated lines, ends with status 0 and
\* writes nothing to stderr.
QuietSuccess(c) ==
    c.kind = "run" /\ c.status = 0 /\ ~c.noEol /\ c.err = 0

\* What follows the output in the text: the exit-code note of a non-zero
\* status.
NoteOf(c) == IF c.status # 0 THEN << NL, ExitLine(c.status) >> ELSE <<>>

\* The output part of the text when nothing is cut: the lines without their
\* carriage returns; for status 0 all trailing newlines go, otherwise the
\* note follows the last line's newline.
BodyOf(t) ==
    IF call[t].cmd.status = 0 THEN TrimRightNL(WrittenNoCR(t)) ELSE WrittenNoCR(t)

\* C7 as stated: such a command's call, unless it timed out, returns
\* exactly the output with its final newline removed.
C7_Original ==
    \A t \in Tasks :
       (Done(t) /\ QuietSuccess(call[t].cmd) /\ call[t].res.e # "timeout")
       => call[t].res = Ok(DropFinalNL(Written(t)))

\* C7 (amended): when the output is no larger than MaxOutputSize, the call
\* returns the lines, each without a trailing carriage return, joined by
\* newlines with every trailing newline removed, and nothing else; it
\* fails only by timing out, and not once the marker echo ran in time.
C7_PlainOutputReturned ==
    \A t \in Tasks :
       (Done(t) /\ QuietSuccess(call[t].cmd) /\ OutputSize(call[t].cmd) <= MaxOutputSize)
       => /\ call[t].res.k = "ok" => call[t].res.text = TrimRightNL(WrittenNoCR(t))
          /\ call[t].res.k = "err" => call[t].res.e = "timeout"
          /\ call[t].echoed => call[t].res.k = "ok"

C7_Witness ==
    \E t \in Tasks :
       /\ Done(t)
       /\ QuietSuccess(call[t].cmd)
       /\ call[t].cmd.lines = << 1, 0 >>
       /\ call[t].cmd.crlf
       /\ call[t].res = Ok(<< Chunk("data", 10 * call[t].no + 1, 1) >>)

\* C9 as stated: a successful call whose command printed at most
\* MaxOutputSize bytes returns text that starts with the output as written
\* (less its final newline) and holds no truncation notice.
C9_Original ==
    \A t \in Tasks :
       (/\ Done(t)
        /\ call[t].cmd.kind = "run"
        /\ call[t].res.k = "ok"
        /\ OutputSize(call[t].cmd) <= MaxOutputSize)
       => /\ ~HasNotice(call[t].res.text)
          /\ IsPrefix(DropFinalNL(Written(t)), call[t].res.text)

\* C9 (amended): such a call returns every line, in order and without a
\* truncation notice, each line less its trailing carriage return; for
\* status 0 every trailing newline is removed; then the exit-code note of a
\* non-zero status; then, if any was buffered, the STDERR section.
C9_UncutOutputReturned ==
    \A t \in Tasks :
       (/\ Done(t)
        /\ call[t].cmd.kind = "run"
        /\ call[t].res.k = "ok"
        /\ OutputSize(call[t].cmd) <= MaxOutputSize)
       => /\ ~HasNotice(call[t].res.text)
          /\ \/ call[t].res.text = TrimRightNL(BodyOf(t) \o NoteOf(call[t].cmd))
             \/ /\ call[t].cmd.err # 0
                /\ call[t].res.text =
                     TrimRightNL(BodyOf(t) \o NoteOf(call[t].cmd)) \o StderrHeader
                        \o CmdStderr(call[t].cmd, call[t].no)

C9_Witness ==
    \E t \in Tasks :
       /\ Done(t)
       /\ call[t].res.k = "ok"
       /\ call[t].cmd.kind = "run"
       /\ OutputSize(call[t].cmd) = MaxOutputSize
       /\ Len(call[t].cmd.lines) = 2
       /\ call[t].cmd.status # 0
       /\ EndsWith(call[t].res.text, CmdStderr(call[t].cmd, call[t].no))

\* ------------------------------------------------------------- the caps
\* The command's output reaches a cap: a line as long as the scan buffer,
\* or more output than MaxOutputSize.
ReachesCap(c) ==
    \/ OutputSize(c) > MaxOutputSize
    \/ \E i \in 1..Len(c.lines) : c.lines[i] >= MaxScannerBufferSize

\* C11: a call whose command printed newline-terminated lines that reach a
\* cap (and did not time out) returned success and left its session
\* running.
C11_CapIsNoError ==
    \A t \in Tasks :
       (/\ Done(t)
        /\ call[t].cmd.kind = "run"
        /\ ~call[t].cmd.noEol
        /\ ReachesCap(call[t].cmd)
        /\ call[t].res.e # "timeout")
       => /\ call[t].res.k = "ok"
          /\ sess[call[t].pid].running

\* C12: the diagnostic buffer of every session holds at most
\* MaxOutputSize bytes.
C12_DiagnosticsWithinCap ==
    \A s \in Live : Bytes(sess[s].stderrBuf) <= MaxOutputSize

\* ------------------------------------------------------- close, repeated
\* C19: Kill() is called at most once on a session's process, however
\* often close() runs on the session.
C19_SecondCloseDoesNothing ==
    \A s \in Live : sess[s].killCalls <= 1

\* C20 as stated: a session that is not running has had its process
\* signalled and its pipes closed.
C20_Original ==
    \A s \in Live : ~sess[s].running =>
       sess[s].sigSent = 1 /\ sess[s].pipesClosed

\* C20 (amended): a session is not running only after an execute on it
\* failed or close() ran on it.  Once close() has run, however often, the
\* process has been signalled exactly once and reaped and the pipes are
\* closed; until then no signal has been sent and the pipes are open.
C20_NotRunningMeansFailedOrClosed ==
    \A s \in Live :
       /\ ~sess[s].running => (sess[s].fate # "none" \/ sess[s].closeCalls >= 1)
       /\ sess[s].closeCalls >= 1 =>
            /\ ~sess[s].running
            /\ sess[s].sigSent = 1
            /\ sess[s].proc = "reaped"
            /\ sess[s].pipesClosed
       /\ sess[s].closeCalls = 0 =>
            /\ sess[s].sigSent = 0
            /\ ~sess[s].pipesClosed
            /\ sess[s].proc # "reaped"

C20_Witness ==
    \E s \in Live :
       /\ ~sess[s].running
       /\ sess[s].fate = "timeout"
       /\ sess[s].closeCalls = 2
       /\ sess[s].sigSent = 1

\* ------------------------------------------------- requests and responses
\* The response frames written to stdout for the message of slot f.
Responses(f) ==
    { i \in DOMAIN stream : stream[i].f = f /\ stream[i].part = "head" }

\* The goroutine of the message of slot f has returned.
Returned(f) == frames[f].st = "done"

\* A Request: a line that parses and carries an id.
IsRequest(f) == frames[f].msg.parses /\ frames[f].msg.hasId

\* C13: nothing is written to stdout for a message that carries no id.
C13_NoResponseWithoutId ==
    \A f \in Slots :
       frames[f].st # "none" /\ ~frames[f].msg.hasId => Responses(f) = {}

\* C14: a request whose goroutine has returned has exactly one response
\* on stdout, and that response carries the request's id.
C14_RequestAnsweredOnce ==
    \A f \in Slots :
       Returned(f) /\ IsRequest(f) =>
          /\ Cardinality(Responses(f)) = 1
          /\ \A i \in Responses(f) : stream[i].id = f

\* C15: a request routed while the server was not initialized, its method
\* neither initialize nor ping, is answered with error -32002.
C15_UninitializedRejected ==
    \A f \in Slots :
       /\ Returned(f)
       /\ IsRequest(f)
       /\ frames[f].uninit
       /\ frames[f].msg.method \notin { << "initialize" >>, << "ping" >> }
       => /\ frames[f].resp = ErrorResp(f, CodeNotInitialized)
          /\ Responses(f) # {}

\* ------------------------------------------------------ writes to stdout
\* Everything handed to t.writer so far, flushed or not.
Written2Writer == stream \o wbuf

\* C17: what the goroutines have handed to the writer is a sequence of
\* whole frames, each the head and the tail of one response side by side
\* (but for the frame being copied right now, by the holder of t.mutex),
\* and stdout holds whole frames only.
C17_FramesContiguous ==
    LET out == Written2Writer
    IN /\ \A i \in DOMAIN out :
            IF out[i].part = "head"
            THEN IF i < Len(out)
                 THEN out[i + 1] = [out[i] EXCEPT !.part = "tail"]
                 ELSE frames[out[i].f].st = "head" /\ tmutex = out[i].f
            ELSE i > 1 /\ out[i - 1] = [out[i] EXCEPT !.part = "head"]
       /\ stream # <<>> => stream[Len(stream)].part = "tail"
       /\ \A f \in Slots : Cardinality(Responses(f)) <= 1

\* Two handlers completed together: the response to the later message is
\* on stdout, and the goroutine of the earlier one is in the middle of its
\* write.
C17_Witness ==
    \E f, g \in Slots :
       /\ f < g
       /\ frames[f].st = "head"
       /\ Returned(g)
       /\ Responses(g) # {}

\* ------------------------------------------------------ tool call failures
\* The tools/call handler ran for the message of slot f and what it
\* returned is not the output of a command.
ToolCallFailed(f) ==
    /\ frames[f].msg.parses
    /\ frames[f].msg.method = << "tools", "call" >>
    /\ ~frames[f].uninit
    /\ frames[f].resp.k # "none"
    /\ frames[f].resp.body # "output"

\* C18: a tool call that failed is answered with a result whose text
\* starts with "Error:", not with a JSON-RPC error object.
C18_ToolFailureIsErrorText ==
    \A f \in Slots :
       ToolCallFailed(f) => frames[f].resp.k = "result" /\ frames[f].resp.error

\* ------------------------------------------- requests during a command
\* The tool call of slot f is inside ExecuteCommand or RestartSession.
CommandInFlight(f) ==
    frames[f].st = "tool" /\ mgrLock = frames[f].t

\* The goroutine of slot g is not waiting for anything a command holds:
\* its next step can be taken, or it waits for t.mutex, whose holder's
\* next step can be taken; as a tool call it is not waiting for the
\* manager's lock.
NotQueued(g) ==
    CASE frames[g].st = "handle" -> ENABLED HandleRequest(g)
      [] frames[g].st = "tool" ->
           pc[frames[g].t] \in { "exec", "restart" } => ManagerLockFree
      [] frames[g].st = "reply" ->
           \/ ENABLED LockAndWrite(g)
           \/ tmutex # 0 /\ (ENABLED WriteRest(tmutex) \/ ENABLED FlushAndUnlock(tmutex))
      [] frames[g].st = "head" -> ENABLED WriteRest(g)
      [] frames[g].st = "tail" -> ENABLED FlushAndUnlock(g)
      [] OTHER -> TRUE

\* C16 as stated: while a command is in flight no other request waits
\* behind it.
C16_Original ==
    \A f, g \in Slots : CommandInFlight(f) /\ g # f => NotQueued(g)

\* C16 (amended): while a command is in flight, a request that does not
\* itself run a command never waits behind it.
C16_OthersNotQueuedBehindCommand ==
    \A f, g \in Slots :
       CommandInFlight(f) /\ g # f /\ ~RunsBash(frames[g].msg) => NotQueued(g)

\* The response to a tools/list that was read after a tool call is on
\* stdout while the command of the tool call is still running.
C16_Witness ==
    \E f, g \in Slots :
       /\ f < g
       /\ CommandInFlight(f)
       /\ pc[frames[f].t] = "select"
       /\ call[frames[f].t].cmd.kind = "hang"
       /\ frames[g].msg.method = << "tools", "list" >>
       /\ Returned(g)
       /\ frames[g].resp = ResultResp(g, "tools")
       /\ Responses(g) # {}

\* ------------------------------------------------------ sessions replaced
\* C21: every session but the one the manager points to has had close()
\* run on it: its process was killed and reaped and its pipes closed
\* before the session that replaced it was started.
C21_ReplacedSessionsReaped ==
    \A s \in Live :
       s # session =>
          /\ sess[s].closeCalls >= 1
          /\ ~sess[s].running
          /\ sess[s].proc = "reaped"
          /\ sess[s].pipesClosed

\* A healthy session was replaced by a restart.
C21_Witness ==
    /\ Len(sess) = 2
    /\ session = 2
    /\ prev.k = "restart"
    /\ sess[1].fate = "none"
    /\ sess[1].proc = "reaped"
    /\ sess[2].proc = "alive"

\* The bash processes started and not yet reaped.
Unreaped == { s \in Live : sess[s].proc # "reaped" }

\* C22: at most one bash process started by the manager has not been
\* killed and reaped, and it is the process of the manager's session.
C22_OneShellProcess ==
    /\ Cardinality(Unreaped) <= 1
    /\ Unreaped \subseteq { session }

\* A command timed out, the creation of the next session failed, and the
\* call after that started the one process there is.
C22_Witness ==
    /\ Len(sess) = 2
    /\ sess[1].fate = "timeout"
    /\ sess[1].closeCalls = 2
    /\ Unreaped = { 2 }

\* ------------------------------------------------- creation that fails
\* The call's ExecuteCommand or RestartSession returned the error of
\* createSession.
CreationFailed(t) == Done(t) /\ call[t].res.e \in { "create", "restart" }

\* Something of call t has reached a shell.
Reached(t) ==
    \E s \in Live :
       \/ sess[s].curNo = call[t].no
       \/ \E i \in 1..Len(sess[s].stdin) : sess[s].stdin[i].m = call[t].no

\* C23: a call whose session could not be created returns an error and
\* runs no command; after a manager operation that failed the manager has
\* no running session; and the ExecuteCommand that comes next finds none
\* and creates one (or fails in turn).
C23_CreationFailureRetried ==
    /\ \A t \in Tasks :
          CreationFailed(t) =>
             /\ call[t].res.k = "err"
             /\ call[t].cmd = NoCmd
             /\ call[t].pid = 0
             /\ call[t].made = 0
             /\ ~Reached(t)
    /\ (prev.k = "fail" /\ ManagerLockFree) => (session = 0 \/ ~sess[session].running)
    /\ \A t \in Tasks :
          Looked(t) /\ call[t].after.k = "fail" =>
             ~call[t].foundRunning /\ Replaced(t)

\* After a creation that failed (the session found had not failed in an
\* execute), the next ExecuteCommand created a session and ran its command.
C23_Witness ==
    \E t \in Tasks :
       /\ Done(t)
       /\ call[t].after.k = "fail"
       /\ call[t].sawFate = "none"
       /\ call[t].made # 0
       /\ call[t].res.k = "ok"

\* ------------------------------------------------- restart, then command
\* C24: when the command of a call with restart: true has run on a session
\* its ExecuteCommand found, the last manager operation before that
\* ExecuteCommand was a restart and the session is the one the restart
\* made: no other call's command ran on it in between.
C24_RestartThenOwnCommand ==
    \A t \in Tasks :
       /\ Done(t)
       /\ call[t].restart
       /\ call[t].res.k = "ok"
       /\ call[t].made = 0
       => /\ call[t].after.k = "restart"
          /\ call[t].pid = call[t].after.pid

\* ------------------------------------------------ one command's output
\* The chunk is output of the command of call number no.
OwnChunk(x, no) ==
    CASE x.k = "data" -> x.id \div 10 = no
      [] x.k = "err" -> x.id = no
      [] x.k \in { "marker", "status" } -> FALSE
      [] OTHER -> TRUE

C26_OnlyOwnDiagnostics ==
    \A t \in Tasks :
       Done(t) /\ call[t].res.k = "ok" =>
          \A i \in 1..Len(call[t].res.text) :
             call[t].res.text[i].k = "err" => OwnChunk(call[t].res.text[i], call[t].no)

\* ------------------------------------------------ the abandoned scanner
\* The scanning goroutine of session s is running and the execute that
\* started it has returned.
Abandoned(s) ==
    /\ sess[s].scan.st = "on"
    /\ \A t \in Tasks : InExecute(t) => call[t].pid # s

\* C27: a scanning goroutine is left behind only by a timeout; once
\* close() has closed the pipes it can end at once, its send not waiting
\* for anybody; and no execute runs on the session it reads from, so
\* what it reads and sends reaches no result.
C27_AbandonedScannerEnds ==
    /\ \A s \in Live :
          /\ Abandoned(s) => sess[s].fate = "timeout" /\ ~sess[s].running
          /\ sess[s].scan.st = "on" /\ sess[s].pipesClosed => ENABLED ScanEnd(s)
    /\ \A t \in Tasks :
          pc[t] \in { "write", "blocked", "select" } => sess[call[t].pid].fate = "none"

\* The goroutine a timeout left behind has ended on the closed pipe, and
\* a later call has succeeded on the session that came next.
C27_Witness ==
    \E s \in Live, t \in Tasks :
       /\ sess[s].fate = "timeout"
       /\ sess[s].pipesClosed
       /\ sess[s].scan.st = "done"
       /\ sess[s].chan.k = "err"
       /\ Done(t)
       /\ call[t].pid > s
       /\ call[t].res.k = "ok"

\* --------------------------------------------- the session execute gets
\* C28: the session ExecuteCommand hands to execute is running when
\* execute makes its check, and no call is ever turned down with "bash
\* session is not running".
C28_ExecuteOnRunningSession ==
    \A t \in Tasks :
       /\ pc[t] = "execute" =>
            /\ call[t].pid = session
            /\ sess[call[t].pid].running
            /\ sess[call[t].pid].mutex = 0
       /\ call[t].res # Err("not running")

\* A call that arrived while another call's command was running found the
\* session dead once that command had timed out, replaced it and has
\* passed execute's check.
C28_Witness ==
    \E t, u \in Tasks :
       /\ pc[t] = "write"
       /\ call[t].found # 0
       /\ ~call[t].foundRunning
       /\ call[t].made # 0
       /\ pc[u] = "done"
       /\ call[u].res = Err("timeout")
       /\ call[u].pid = call[t].found

\* ----------------------------------------------------------- the drainer
\* C29: while a session is running and its bash process alive, the
\* session's stderr drainer has not ended.
C29_DrainerRunsWhileSessionDoes ==
    \A s \in Live :
       sess[s].running /\ sess[s].proc = "alive" => sess[s].drainer = "run"

\* A line of stderr is there for the drainer of session s to read.
LineToDrain(s) ==
    /\ sess[s].drainer = "run"
    /\ ~sess[s].pipesClosed
    /\ FirstNL(sess[s].stderr, 1) # 0

Routed(f) == frames[f].st \in { "reply", "head", "tail", "done" }

\* The message of slot f is an initialize that parsed as a RequestMessage.
IsInitialize(f) ==
    frames[f].msg.parses /\ frames[f].msg.method = << "initialize" >>

\* A success response to the initialize of slot f: the client's protocol
\* version or, when it sent none, "2023-11-05", and the capabilities.
InitializeSucceeded(f) ==
    /\ frames[f].resp.k = "result"
    /\ frames[f].resp.id = IdOf(f)
    /\ frames[f].resp.version =
         (IF frames[f].msg.params = "ok" THEN ClientVersion ELSE "2023-11-05")
    /\ frames[f].resp.capabilities = { << "tools", "list" >>, << "tools", "call" >> }
    /\ initialized

\* C31 as stated: every initialize handled, in either state, is answered
\* with a success response and leaves the server initialized.
C31_Original ==
    \A f \in Slots : Routed(f) /\ IsInitialize(f) => InitializeSucceeded(f)

\* C31 (amended): an initialize whose params parse as InitializeParams,
\* handled in either state, leaves the server initialized and is answered
\* with a result that carries the client's protocol version (the default
\* when it sent none) and the capabilities; one whose params do not parse
\* is answered with error -32602 and changes nothing.
C31_InitializeSucceeds ==
    \A f \in Slots :
       Routed(f) /\ IsInitialize(f) =>
          IF frames[f].msg.params # "bad"
          THEN InitializeSucceeded(f)
          ELSE /\ frames[f].resp = ErrorResp(IdOf(f), CodeInvalidParams)
               /\ (frames[f].uninit /\ \A g \in Slots : g # f => frames[g].st \in { "none", "handle" })
                    => ~initialized

\* An initialize handled while the server was uninitialized and one
\* handled while it was initialized, one of them without a protocol
\* version, both answered on stdout.
C31_Witness ==
    \E f, g \in Slots :
       /\ IsInitialize(f) /\ IsInitialize(g)
       /\ Returned(f) /\ Returned(g)
       /\ frames[f].uninit /\ ~frames[g].uninit
       /\ frames[f].msg.params = "ok" /\ frames[g].msg.params = "nover"
       /\ frames[g].resp.version = "2023-11-05"
       /\ Responses(f) # {} /\ Responses(g) # {}

\* -------------------------------------------------------- the method table
\* The request of slot f was routed to the method table while the server
\* was initialized: it is neither initialize nor one of the methods that
\* are handled as notifications.
LookedUp(f) ==
    /\ IsRequest(f)
    /\ frames[f].st \notin { "none", "handle" }
    /\ ~frames[f].uninit
    /\ frames[f].msg.method \notin { << "initialize" >>, << "initialized" >> }
    /\ ~IsNotificationMethod(frames[f].msg.method)

\* The handler registered for the request of slot f returns an error: the
\* params of a tools/call do not hold a CallToolRequest.
HandlerFails(f) ==
    frames[f].msg.method = << "tools", "call" >> /\ frames[f].msg.params = "bad"

\* C32: a request looked up in the method table while the server is
\* initialized is answered with error -32601 when no handler is registered
\* for its method, with error -32000 when the handler fails, and with a
\* result otherwise; the response carries the request's id, and that is
\* the response written to stdout.
C32_MethodTable ==
    \A f \in Slots :
       LookedUp(f) /\ Routed(f) =>
          /\ frames[f].resp.id = f
          /\ IF frames[f].msg.method \notin { << "tools", "list" >>, << "tools", "call" >> }
             THEN frames[f].resp.k = "error" /\ frames[f].resp.code = -32601
             ELSE IF HandlerFails(f)
             THEN frames[f].resp.k = "error" /\ frames[f].resp.code = -32000
             ELSE frames[f].resp.k = "result"
          /\ Returned(f) =>
               /\ Responses(f) # {}
               /\ \A i \in Responses(f) : stream[i].id = f

\* With the server ready, a request for an unknown method and a tools/call
\* whose handler fails have both been answered on stdout.
C32_Witness ==
    \E f, g \in Slots :
       /\ LookedUp(f) /\ Returned(f)
       /\ LookedUp(g) /\ Returned(g)
       /\ frames[f].msg.method = << "nosuch" >>
       /\ frames[f].resp = ErrorResp(f, CodeMethodNotFound)
       /\ HandlerFails(g)
       /\ frames[g].resp = ErrorResp(g, CodeHandlerError)
       /\ Responses(f) # {} /\ Responses(g) # {}

\* ------------------------------------------------------ unparseable lines
\* The line of slot f did not parse as a RequestMessage.
Unparseable(f) == frames[f].st # "none" /\ ~frames[f].msg.parses

\* The goroutine of slot f handles its line in this step.
Handles(f) == frames[f].st = "handle" /\ frames'[f].st # "handle"

\* C33: the step that handles a line that does not parse ends its
\* goroutine and changes nothing else: not the router's state, not the
\* session, not what is written, not the other goroutines.  Nothing is
\* ever written for it, and once it is dropped the lines read after it
\* are handled like any other and the next line can be read.
C33_UnparseableDropped ==
    [][ /\ \A f \in Slots :
             Handles(f) /\ Unparseable(f) =>
                /\ frames' = [frames EXCEPT ![f] = [@ EXCEPT !.st = "done", !.uninit = ~initialized]]
                /\ UNCHANGED << pc, call, calls, mgrLock, session, sess, prev, down, transport,
                                initialized, tmutex, wbuf, stream >>
        /\ \A f \in Slots :
             Unparseable(f) /\ Returned(f) =>
                /\ Responses(f) = {}
                /\ \A i \in DOMAIN Written2Writer : Written2Writer[i].f # f
                /\ \A g \in Slots :
                     /\ frames[g].st = "handle" => ENABLED HandleRequest(g)
                     /\ frames[g].st = "reply" /\ tmutex = 0 => ENABLED LockAndWrite(g)
                     /\ (g = f + 1 /\ g <= MaxFrames /\ frames[g].st = "none"
                           /\ Cardinality(InFlight) < Cardinality(Tasks))
                          => ENABLED ReadFrame(g, MaxFrames, RouterMsgs) ]_vars

\* A line that did not parse was dropped while the server was
\* uninitialized, and a request read after it has been answered on stdout.
C33_Witness ==
    \E f, g \in Slots :
       /\ f < g
       /\ Unparseable(f) /\ Returned(f)
       /\ frames[f].uninit
       /\ IsRequest(g) /\ Returned(g)
       /\ Responses(g) # {}
       /\ Responses(f) = {}

\* ------------------------------------------ notifications during a command
\* The tool call of slot f is inside execute.
BlockedInExecute(f) == frames[f].st = "tool" /\ InExecute(frames[f].t)

\* The message of slot g is a notification by its method name, other than
\* the one that makes the server ready.
IsNotification(g) ==
    /\ frames[g].st # "none"
    /\ frames[g].msg.parses
    /\ IsNotificationMethod(frames[g].msg.method)
    /\ frames[g].msg.method # << "notifications", "initialized" >>

\* The slot the reader loop fills next.
NextSlot(g) ==
    /\ g <= MaxFrames + 1
    /\ frames[g].st = "none"
    /\ \A h \in Slots : h < g => frames[h].st # "none"

\* C34: while a tool call is inside execute the reader loop can read the
\* next line, a notification that was read can be handled at once by its
\* own goroutine, and one that has been handled had its registered
\* notification handler started and its goroutine has returned without a
\* response: none of this waits for the tool call.
C34_NotificationsNotBlocked ==
    \A f \in Slots :
       BlockedInExecute(f) =>
          \A g \in Slots :
             /\ (NextSlot(g) /\ Cardinality(InFlight) < Cardinality(Tasks))
                  => ENABLED ReadFrame(g, MaxFrames + 1, NotifyMsgs)
             /\ IsNotification(g) =>
                  /\ frames[g].st = "handle" => ENABLED HandleRequestCancel(g)
                  /\ frames[g].st # "handle" =>
                       /\ Returned(g)
                       /\ frames[g].resp = NoResp
                       /\ frames[g].nh = (frames[g].msg.method = << "notifications", "cancelled" >>)

\* A cancellation read after a tool call has had its handler started while
\* the command of the tool call is still running in the shell.
C34_Witness ==
    \E f, g \in Slots :
       /\ f < g
       /\ BlockedInExecute(f)
       /\ pc[frames[f].t] = "select"
       /\ sess[call[frames[f].t].pid].shell = "busy"
       /\ frames[g].msg.method = << "notifications", "cancelled" >>
       /\ Returned(g)
       /\ frames[g].nh

\* --------------------------------------------------- the initialized flag
\* handleInitialize has returned its result for the message of slot f:
\* the response is about to be handed to the transport, or has been.
InitializeAnswered(f) ==
    IsInitialize(f) /\ Routed(f) /\ frames[f].resp.k = "result"

\* The step rejects the message of slot g with error -32002.
Rejects(g) ==
    /\ Handles(g)
    /\ frames'[g].resp.k = "error"
    /\ frames'[g].resp.code = -32002

\* C35: s.initialized is set by the time handleInitialize has returned its
\* result, so before the response reaches the transport, and it is never
\* cleared; hence no message is rejected with -32002 in a step taken after
\* an initialize result was returned, and so none that is read after the
\* result was written to stdout, whatever the goroutines' interleaving.
C35_InitializedBeforeResponse ==
    [][ /\ \A f \in Slots : InitializeAnswered(f) => initialized
        /\ initialized => initialized'
        /\ \A g \in Slots :
             Rejects(g) => /\ ~initialized
                           /\ \A f \in Slots : ~InitializeAnswered(f) ]_vars

\* The result of an initialize is on stdout and a request read after it
\* has been answered by its handler.
C35_Witness ==
    \E f, g \in Slots :
       /\ f < g
       /\ InitializeAnswered(f) /\ Returned(f) /\ Responses(f) # {}
       /\ frames[f].uninit
       /\ IsRequest(g) /\ Returned(g)
       /\ frames[g].msg.method = << "tools", "list" >>
       /\ frames[g].resp = ResultResp(g, "tools")

\* --------------------------------------------------------------- shutdown
\* C36: once BashManager.Close() has returned the manager has no session
\* and no bash process it started is left running, from then on.
C36_NoShellAfterClose ==
    down # "no" => session = 0 /\ Unreaped = {}

\* ------------------------------------------------------------------- Stop
\* C37: a Stop() that waits for the reader loop returns in the end,
\* whether or not anything more arrives on stdin, and while it waits a
\* goroutine with a response to write can take t.mutex or waits only for
\* another goroutine's write.
C37_StopReturnsAndLetsWrite ==
    /\ (transport.stop = "wait") ~> (transport.stop = "returned")
    /\ [](transport.stop = "wait" =>
            \A g \in Slots :
               frames[g].st = "reply" =>
                  \/ ENABLED LockAndWrite(g)
                  \/ tmutex \in Slots /\ (ENABLED WriteRest(tmutex) \/ ENABLED FlushAndUnlock(tmutex)))

\* ------------------------------------------------------ arguments refused
\* The message of slot f is a bash tool call, routed to its handler, whose
\* arguments do not parse or name no command.
ArgsRefused(f) ==
    /\ frames[f].msg.parses
    /\ frames[f].msg.method = << "tools", "call" >>
    /\ frames[f].msg.params \in { "badargs", "nocommand", "restartonly" }
    /\ frames[f].st # "none"

\* C38: the step that handles a bash tool call whose arguments are
\* refused, on a server that is initialized, returns an "Error:" text
\* result and changes nothing of the bash manager or its sessions: no task
\* is given the call, no session is closed or created, nothing is written
\* to a shell, whether or not restart was asked for.  Such a call never
\* runs on a task.
C38_RefusedArgsTouchNothing ==
    [][ /\ \A f \in Slots :
             Handles(f) /\ ArgsRefused(f) /\ initialized =>
                /\ frames'[f].st = "reply"
                /\ frames'[f].resp.k = "result"
                /\ frames'[f].resp.error
                /\ frames'[f].resp.id = f
                /\ UNCHANGED << pc, call, calls, mgrLock, session, sess, prev, down >>
        /\ \A f \in Slots : ArgsRefused(f) => frames[f].st # "tool" /\ frames[f].t = 0 ]_vars

\* A tool call made a session; a later call with restart: true and no
\* command was answered with its error text, and the session is the same
\* one, still running, with nothing on its stdin.
C38_Witness ==
    \E f \in Slots :
       /\ ArgsRefused(f) /\ Returned(f)
       /\ frames[f].msg.params = "restartonly"
       /\ frames[f].resp = createErrorResponse(f, "command parameter is required")
       /\ Responses(f) # {}
       /\ session = 1 /\ Len(sess) = 1
       /\ sess[1].running /\ sess[1].proc = "alive" /\ sess[1].stdin = <<>>
       /\ calls = 1
====
